---- MODULE Spec2Model ----
(***************************************************************************)
(* Model of the MCP tool proxy of src/server/src/server.js: the startup    *)
(* loop that registers one MCP client per configured provider, the         *)
(* WebSocket sessions of the front end, and the routing of call_tool       *)
(* requests to the registered clients.                                     *)
(***************************************************************************)
EXTENDS Integers, Sequences, FiniteSets, TLC

(* ------------------------------ bounds -------------------------------- *)

\* Front-end messages the proxy receives in one run (over all sessions).
MaxMsgs == 2

\* Calls of convertToolToFunctionDeclaration in one run.
MaxCalls == 3

\* Messages the front end hands to MCPWebSocketClient.sendOrQueue in one run.
MaxClientMsgs == 3

\* Tool descriptors handed to filterAndConvertTools in one call.
MaxTools == 3

\* ---------------------------- value domains ----------------------------

Providers == {"a", "b"}
Sessions == {"s1", "s2"}
\* serverName values a front end may put in a call_tool request.
ServerNames == Providers
\* toolName values a front end may put in a call_tool request.
ToolNames == {"read_file"}
\* requestId values; NoId stands for an absent (undefined) requestId field.
NoId == "none"
RequestIds == {"r1", "r2"}
\* A tool descriptor field that the provider did not set.
Absent == "none"

\* The configurations loadConfig can return (key order of mcpServers).
Configs == {<< >>, <<"a", "b">>}

\* A tool descriptor as reported by listTools: its local name and, possibly,
\* a serverName field of its own.
Tool(n, own) == [name |-> n, serverName |-> own]

\* The tool list each provider reports when its listTools answers: both
\* report read_file, and a's descriptor of it has a serverName field.
Reported(p) ==
  IF p = "a"
    THEN << Tool("read_file", "b"), Tool("write_file", Absent) >>
    ELSE << Tool("read_file", Absent) >>

VARIABLES
  mcpClients,    \* the registry: sequence of [name, client, tools], insertion order
  config,        \* provider names in configuration order
  initIdx,       \* position of the startup loop in config
  initPhase,     \* "load" | "connect" | "list" | "hung" | "done"
  started,       \* providers on which initializeMCPClient was called
  outcome,       \* per provider: how its initialization ended
  reported,      \* per provider: the tool list its listTools answered
  backend,       \* per provider: state of its child process / connection
  sess,          \* per session: "new" | "open" | "closed"
  sent,          \* per session: the frames passed to ws.send, in order
  requests,      \* the messages received, in order of receipt
  invoked,       \* the callTool invocations issued, in order
  uncaught,      \* whether an exception escaped a handler of the proxy
  cleanupIdx,    \* position of cleanup's loop over the registry, 0 before it
  attempted,     \* the clients cleanup has called disconnect on
  exitCode,      \* the code the process exited with, -1 while it runs
  mcpTools,      \* front end: the tool descriptors it holds, in order
  declarations,  \* front end: the conversions made, [tool, arg, result]
  readyState,    \* MCPWebSocketClient: state of this.ws
  connected,     \* MCPWebSocketClient: this.connected
  messageQueue,  \* MCPWebSocketClient: this.messageQueue
  wsSent,        \* MCPWebSocketClient: the messages this.ws transmitted, in order
  sequence,      \* MCPWebSocketClient: number of calls of sendOrQueue so far
  messageHandlers,     \* MCPWebSocketClient: this.messageHandlers, requestId -> promise
  toolsUpdateCallback, \* MCPWebSocketClient: the promise its callback resolves, 0 for null
  promises,      \* the promises callTool returned, [requestId, state, invoked]
  created,       \* the promises createMCPClient returned, "pending" | "resolved"
  received,      \* MCPWebSocketClient: the frames onmessage has handled, in order
  ws,            \* Altair: readyState of its socket
  altairSent,    \* Altair: the requests its socket transmitted, in order
  altairRead,    \* Altair: frames of its session it has handled
  functionCalls, \* Altair: the function calls onToolCall handled, [id, name]
  toolResponses, \* Altair: the responses passed to client.sendToolResponse
  functionDeclarations \* Altair: what filterAndConvertTools returned, undefined before

vars == << mcpClients, config, initIdx, initPhase, started, outcome, reported,
           backend, sess, sent, requests, invoked, uncaught,
           cleanupIdx, attempted, exitCode, mcpTools, declarations,
           readyState, connected, messageQueue, wsSent, sequence,
           messageHandlers, toolsUpdateCallback, promises, created, received,
           ws, altairSent, altairRead, functionCalls, toolResponses,
           functionDeclarations >>

\* ------------------------------ helpers --------------------------------

Range(f) == { f[i] : i \in DOMAIN f }

\* Position of the registry entry of name, 0 when there is none (Map.has).
IndexOf(name) ==
  IF \E i \in 1..Len(mcpClients) : mcpClients[i].name = name
    THEN CHOOSE i \in 1..Len(mcpClients) : mcpClients[i].name = name
    ELSE 0

Registered(name) == IndexOf(name) # 0

\* A registry that holds the provider initialized last only: the map is
\* cleared before the set.
MapSetOnly(name, client, tools) ==
  << [name |-> name, client |-> client, tools |-> tools] >>

\* mcpClients.set(name, { client, tools }): a new key is appended in insertion
\* order, an existing key keeps its place and gets the new value.
MapSet(name, client, tools) ==
  LET e == [name |-> name, client |-> client, tools |-> tools]
  IN  IF Registered(name)
        THEN [mcpClients EXCEPT ![IndexOf(name)] = e]
        ELSE Append(mcpClients, e)

\* What mcpClients.get(serverName) yields; undefined is the NoEntry record.
NoEntry == [name |-> Absent, client |-> Absent, tools |-> << >>]

GetClientInfo(serverName) ==
  IF Registered(serverName) THEN mcpClients[IndexOf(serverName)] ELSE NoEntry

\* A spread written the other way round, ({ serverName, ...tool }): a
\* serverName field of the descriptor wins over the registry key.
SnapshotEntryOwnName(tool, serverName) ==
  [name |-> tool.name,
   serverName |-> IF tool.serverName # Absent THEN tool.serverName ELSE serverName]

\* ({ ...tool, serverName }): the descriptor's fields, then the registry key
\* under serverName, which replaces a serverName field of the descriptor.
SnapshotEntry(tool, serverName) ==
  [name |-> tool.name, serverName |-> serverName]

\* tools.map(tool => ({ ...tool, serverName }))
RECURSIVE MapTools(_, _)
MapTools(tools, serverName) ==
  IF tools = << >> THEN << >>
  ELSE << SnapshotEntry(Head(tools), serverName) >>
         \o MapTools(Tail(tools), serverName)

\* Array.from(entries).flatMap(...) over a registry
RECURSIVE FlatMapTools(_)
FlatMapTools(entries) ==
  IF entries = << >> THEN << >>
  ELSE MapTools(Head(entries).tools, Head(entries).name)
         \o FlatMapTools(Tail(entries))

\* The snapshot a tools_list frame built now carries.
AllTools == FlatMapTools(mcpClients)

HasTool(tools, toolName) == \E i \in 1..Len(tools) : tools[i].name = toolName

\* A router that looks the tool up by its local name alone: the client of the
\* first registry entry that lists toolName.
CallTargetByTool(serverName, toolName) ==
  IF \E i \in 1..Len(mcpClients) : HasTool(mcpClients[i].tools, toolName)
    THEN mcpClients[CHOOSE i \in 1..Len(mcpClients) :
           /\ HasTool(mcpClients[i].tools, toolName)
           /\ \A j \in 1..(i - 1) : ~HasTool(mcpClients[j].tools, toolName)].client
    ELSE GetClientInfo(serverName).client

\* The client on which callTool is invoked for a call_tool request:
\* mcpClients.get(serverName).client, whatever toolName is.
CallTarget(serverName, toolName) == GetClientInfo(serverName).client

\* A handler that keeps requestId in a variable shared by the connection: the
\* reply carries the requestId of the session's latest call_tool request.
ReplyIdLatest(u) ==
  LET mine == { v \in 1..Len(requests) :
                  /\ requests[v].session = requests[u].session
                  /\ requests[v].type = "call_tool" }
  IN  requests[CHOOSE v \in mine : \A w \in mine : w <= v].requestId

\* The requestId the call_tool handler of request u puts in its reply: the
\* requestId destructured from its own request.
ReplyId(u) == requests[u].requestId

\* A frame passed to ws.send. req is the request whose handler built it (0 for
\* the frame sent on connect), delivered whether the socket was open.
Frame(type, requestId, tools, req) ==
  [type |-> type, requestId |-> requestId, tools |-> tools, req |-> req,
   delivered |-> FALSE]

\* A ws.send that throws when the socket is not open: the throw leaves the
\* try, the sends of both catch blocks throw too, and the handler's promise
\* rejects with nobody to catch it.
SendOrThrow(s, f) ==
  IF sess[s] = "open"
    THEN /\ sent' = [sent EXCEPT ![s] = Append(@, [f EXCEPT !.delivered = TRUE])]
         /\ uncaught' = uncaught
    ELSE /\ sent' = sent
         /\ uncaught' = TRUE

\* ws.send(frame) on the socket of session s, without callback: a socket that
\* is no longer open drops the frame and nothing is thrown.
Send(s, f) ==
  /\ sent' = [sent EXCEPT ![s] =
                Append(@, [f EXCEPT !.delivered = (sess[s] = "open")])]
  /\ uncaught' = uncaught

\* A reply sent on a socket shared by all connections: it goes to the session
\* of the request received last.
ReplyToLatest(u) == requests[Len(requests)].session

\* The socket the call_tool handler of request u replies on: the ws of the
\* connection whose message handler it is.
ReplyTo(u) == requests[u].session

\* The ways a callTool can fail: a fault of the transport or protocol, or an
\* exception of the tool's own execution.
FailureKinds == {"transport", "tool"}

Request(s, type, requestId, serverName, toolName, state) ==
  [session |-> s, type |-> type, requestId |-> requestId,
   serverName |-> serverName, toolName |-> toolName, state |-> state]

\* ------------------------------- Init ----------------------------------

\* The proxy process right after its module-level statements.
ProxyInit ==
  /\ mcpClients = << >>
  /\ config = << >>
  /\ initIdx = 1
  /\ initPhase = "load"
  /\ started = {}
  /\ outcome = [p \in Providers |-> "none"]
  /\ reported = [p \in Providers |-> << >>]
  /\ backend = [p \in Providers |-> "idle"]
  /\ sess = [s \in Sessions |-> "new"]
  /\ sent = [s \in Sessions |-> << >>]
  /\ requests = << >>
  /\ invoked = << >>
  /\ uncaught = FALSE
  /\ cleanupIdx = 0
  /\ attempted = {}
  /\ exitCode = -1

\* new MCPWebSocketClient(): the socket is connecting and nothing is queued.
ClientInit ==
  /\ readyState = "connecting"
  /\ connected = FALSE
  /\ messageQueue = << >>
  /\ wsSent = << >>
  /\ sequence = 0
  /\ messageHandlers = [r \in {} |-> 0]
  /\ toolsUpdateCallback = 0
  /\ promises = << >>
  /\ created = << >>
  /\ received = << >>

\* Altair after its first render: the socket is connecting, no tool is known.
AltairInit ==
  /\ ws = "connecting"
  /\ altairSent = << >>
  /\ altairRead = 0
  /\ functionCalls = << >>
  /\ toolResponses = << >>
  /\ functionDeclarations = [js |-> "undefined"]

\* The proxy together with a front end that holds no tool yet.
Init ==
  /\ ProxyInit
  /\ mcpTools = << >>
  /\ declarations = << >>
  /\ ClientInit
  /\ AltairInit

\* ------------------------------ startup --------------------------------

startupVars == << mcpClients, config, initIdx, initPhase, started, outcome,
                 reported >>
sessionVars == << sess, sent, requests, invoked, uncaught >>
shutdownVars == << cleanupIdx, attempted, exitCode >>
converterVars == << mcpTools, declarations >>
clientVars == << readyState, connected, messageQueue, wsSent, sequence >>
handlerVars == << messageHandlers, toolsUpdateCallback, promises, created,
                 received >>
altairVars == << ws, altairSent, altairRead, functionCalls, toolResponses,
                functionDeclarations >>
frontEndVars == << converterVars, clientVars, handlerVars, altairVars >>
proxyVars == << startupVars, backend, sessionVars, shutdownVars >>

\* A step of startup or of a connection handler: it runs in a process that
\* has not exited and it is no part of cleanup.
NoShutdown == exitCode = -1 /\ UNCHANGED shutdownVars

\* The loop of initializeClients moves to the next provider, or ends.
NextProvider(i) ==
  IF i + 1 <= Len(config)
    THEN /\ initIdx' = i + 1
         /\ initPhase' = "connect"
         /\ started' = started \cup {config[i + 1]}
    ELSE /\ initIdx' = i + 1
         /\ initPhase' = "done"
         /\ started' = started

\* loadConfig returns; a file that cannot be read yields no provider.
LoadConfig ==
  /\ initPhase = "load"
  /\ \E c \in Configs :
       /\ config' = c
       /\ IF c = << >>
            THEN /\ initPhase' = "done"
                 /\ started' = started
            ELSE /\ initPhase' = "connect"
                 /\ started' = {c[1]}
  /\ UNCHANGED << mcpClients, initIdx, outcome, reported, backend >>
  /\ UNCHANGED sessionVars
  /\ NoShutdown
  /\ UNCHANGED frontEndVars

\* client.connect(transport) resolves: the child process runs; after the one
\* second timer client.listTools() is issued.
ConnectOk ==
  /\ initPhase = "connect"
  /\ backend' = [backend EXCEPT ![config[initIdx]] = "running"]
  /\ initPhase' = "list"
  /\ UNCHANGED << mcpClients, config, initIdx, started, outcome, reported >>
  /\ UNCHANGED sessionVars
  /\ NoShutdown
  /\ UNCHANGED frontEndVars

\* A connect failure that escapes the loop: no later provider is started.
ConnectFailAbort ==
  /\ initPhase = "connect"
  /\ backend' = [backend EXCEPT ![config[initIdx]] = "failed"]
  /\ outcome' = [outcome EXCEPT ![config[initIdx]] = "connect_failed"]
  /\ initPhase' = "done"
  /\ UNCHANGED << mcpClients, config, initIdx, started, reported >>
  /\ UNCHANGED sessionVars
  /\ NoShutdown
  /\ UNCHANGED frontEndVars

\* client.connect(transport) rejects: caught, initializeMCPClient returns
\* null and the loop goes on.
ConnectFail ==
  /\ initPhase = "connect"
  /\ backend' = [backend EXCEPT ![config[initIdx]] = "failed"]
  /\ outcome' = [outcome EXCEPT ![config[initIdx]] = "connect_failed"]
  /\ NextProvider(initIdx)
  /\ UNCHANGED << mcpClients, config, reported >>
  /\ UNCHANGED sessionVars
  /\ NoShutdown
  /\ UNCHANGED frontEndVars

\* A registration that stores the tools one at a time: the entry is set with
\* the first tool only and the rest would follow later.
ListOkFirstOnly ==
  /\ initPhase = "list"
  /\ mcpClients' = MapSet(config[initIdx], config[initIdx],
                          SubSeq(Reported(config[initIdx]), 1, 1))
  /\ outcome' = [outcome EXCEPT ![config[initIdx]] = "registered"]
  /\ reported' = [reported EXCEPT ![config[initIdx]] = Reported(config[initIdx])]
  /\ NextProvider(initIdx)
  /\ UNCHANGED << config, backend >>
  /\ UNCHANGED sessionVars
  /\ NoShutdown
  /\ UNCHANGED frontEndVars

\* listTools answers with a tools array: the provider is registered.
ListOk ==
  /\ initPhase = "list"
  /\ mcpClients' = MapSet(config[initIdx], config[initIdx],
                          Reported(config[initIdx]))
  /\ outcome' = [outcome EXCEPT ![config[initIdx]] = "registered"]
  /\ reported' = [reported EXCEPT ![config[initIdx]] = Reported(config[initIdx])]
  /\ NextProvider(initIdx)
  /\ UNCHANGED << config, backend >>
  /\ UNCHANGED sessionVars
  /\ NoShutdown
  /\ UNCHANGED frontEndVars

\* listTools answers without a tools array: registered with no tool.
ListNoTools ==
  /\ initPhase = "list"
  /\ mcpClients' = MapSet(config[initIdx], config[initIdx], << >>)
  /\ outcome' = [outcome EXCEPT ![config[initIdx]] = "registered"]
  /\ NextProvider(initIdx)
  /\ UNCHANGED << config, reported, backend >>
  /\ UNCHANGED sessionVars
  /\ NoShutdown
  /\ UNCHANGED frontEndVars

\* A catch that issues listTools again after a failure instead of giving the
\* provider up.
ListFailRetry ==
  /\ initPhase = "list"
  /\ outcome' = [outcome EXCEPT ![config[initIdx]] = "list_failed"]
  /\ UNCHANGED << mcpClients, config, initIdx, initPhase, started, reported,
                  backend >>
  /\ UNCHANGED sessionVars
  /\ NoShutdown
  /\ UNCHANGED frontEndVars

\* listTools rejects: caught, nothing is registered and the loop goes on.
ListFail ==
  /\ initPhase = "list"
  /\ outcome' = [outcome EXCEPT ![config[initIdx]] = "list_failed"]
  /\ NextProvider(initIdx)
  /\ UNCHANGED << mcpClients, config, reported, backend >>
  /\ UNCHANGED sessionVars
  /\ NoShutdown
  /\ UNCHANGED frontEndVars

\* listTools never settles: the await of initializeMCPClient never resumes.
ListHang ==
  /\ initPhase = "list"
  /\ initPhase' = "hung"
  /\ outcome' = [outcome EXCEPT ![config[initIdx]] = "hung"]
  /\ UNCHANGED << mcpClients, config, initIdx, started, reported, backend >>
  /\ UNCHANGED sessionVars
  /\ NoShutdown
  /\ UNCHANGED frontEndVars

\* The child process of a registered provider p exits or crashes; the proxy
\* registers no handler for it, so nothing else changes.
BackendExit(p) ==
  /\ backend[p] = "running"
  /\ outcome[p] = "registered"
  /\ backend' = [backend EXCEPT ![p] = "exited"]
  /\ UNCHANGED startupVars
  /\ UNCHANGED sessionVars
  /\ NoShutdown
  /\ UNCHANGED frontEndVars

\* ------------------------------ sessions -------------------------------

\* Sessions are interchangeable: they are numbered in the order they connect.
SessionBefore(t, s) == t = "s1" /\ s = "s2"

\* A connection handler that sends the initial list only when it is not empty.
ConnectSkipEmpty(s) ==
  /\ sess[s] = "new"
  /\ \A t \in Sessions : SessionBefore(t, s) => sess[t] # "new"
  /\ sess' = [sess EXCEPT ![s] = "open"]
  /\ sent' = [sent EXCEPT ![s] =
                IF AllTools = << >> THEN @
                ELSE Append(@, [Frame("tools_list", NoId, AllTools, 0)
                                  EXCEPT !.delivered = TRUE])]
  /\ UNCHANGED << requests, invoked, uncaught, backend >>
  /\ UNCHANGED startupVars
  /\ NoShutdown
  /\ UNCHANGED frontEndVars

\* wss.on('connection'): the initial tools list is sent.
Connect(s) ==
  /\ sess[s] = "new"
  /\ \A t \in Sessions : SessionBefore(t, s) => sess[t] # "new"
  /\ sess' = [sess EXCEPT ![s] = "open"]
  /\ sent' = [sent EXCEPT ![s] =
                Append(@, [Frame("tools_list", NoId, AllTools, 0)
                             EXCEPT !.delivered = TRUE])]
  /\ UNCHANGED << requests, invoked, uncaught, backend >>
  /\ UNCHANGED startupVars
  /\ NoShutdown
  /\ UNCHANGED frontEndVars

CanReceive(s) == sess[s] = "open" /\ Len(requests) < MaxMsgs

\* Request ids are interchangeable: they are numbered in the order of their
\* first use, so r2 appears only after r1 did.
UsedIds == { requests[u].requestId : u \in 1..Len(requests) }

FreshOrder(requestId) == requestId = "r2" => "r1" \in UsedIds

\* A session s has a call whose backend answer is outstanding.
HasPendingCall(s) ==
  \E u \in 1..Len(requests) :
    requests[u].session = s /\ requests[u].state = "pending"

\* A message loop that awaits each handler before it takes the next message:
\* a list_tools that arrives while a call of the session is outstanding is
\* taken off the socket but not answered yet.
RecvListToolsAfterCalls(s) ==
  /\ CanReceive(s)
  /\ requests' = Append(requests,
                   Request(s, "list_tools", NoId, Absent, Absent, "done"))
  /\ IF HasPendingCall(s)
       THEN UNCHANGED << sent, uncaught >>
       ELSE Send(s, Frame("tools_list", NoId, AllTools, Len(requests) + 1))
  /\ UNCHANGED << sess, invoked, backend >>
  /\ UNCHANGED startupVars
  /\ NoShutdown
  /\ UNCHANGED frontEndVars

\* A list_tools handler that answers with the allTools constant the connection
\* handler computed when the session connected.
RecvListToolsStale(s) ==
  /\ CanReceive(s)
  /\ requests' = Append(requests,
                   Request(s, "list_tools", NoId, Absent, Absent, "done"))
  /\ Send(s, Frame("tools_list", NoId, sent[s][1].tools, Len(requests) + 1))
  /\ UNCHANGED << sess, invoked, backend >>
  /\ UNCHANGED startupVars
  /\ NoShutdown
  /\ UNCHANGED frontEndVars

\* case 'list_tools'
RecvListTools(s) ==
  /\ CanReceive(s)
  /\ requests' = Append(requests,
                   Request(s, "list_tools", NoId, Absent, Absent, "done"))
  /\ Send(s, Frame("tools_list", NoId, AllTools, Len(requests) + 1))
  /\ UNCHANGED << sess, invoked, backend >>
  /\ UNCHANGED startupVars
  /\ NoShutdown
  /\ UNCHANGED frontEndVars

\* case 'client_log'
RecvClientLog(s) ==
  /\ CanReceive(s)
  /\ requests' = Append(requests,
                   Request(s, "client_log", NoId, Absent, Absent, "done"))
  /\ UNCHANGED << sess, sent, invoked, uncaught, backend >>
  /\ UNCHANGED startupVars
  /\ NoShutdown
  /\ UNCHANGED frontEndVars

\* case 'call_tool', up to the await of callTool or the throw of line 153.
RecvCallTool(s, serverName, toolName, requestId) ==
  /\ CanReceive(s)
  /\ FreshOrder(requestId)
  /\ LET u == Len(requests) + 1
         target == CallTarget(serverName, toolName)
     IN  IF ~Registered(serverName)
           THEN /\ requests' = Append(requests,
                      Request(s, "call_tool", requestId, serverName, toolName,
                              "not_found"))
                /\ Send(s, Frame("error", NoId, << >>, u))
                /\ UNCHANGED invoked
           ELSE /\ requests' = Append(requests,
                      Request(s, "call_tool", requestId, serverName, toolName,
                              "pending"))
                /\ invoked' = Append(invoked,
                      [client |-> target, name |-> toolName, req |-> u])
                /\ UNCHANGED << sent, uncaught >>
  /\ UNCHANGED << sess, backend >>
  /\ UNCHANGED startupVars
  /\ NoShutdown
  /\ UNCHANGED frontEndVars


\* An outer catch that treats a bad message as a protocol error: it reports it
\* and terminates the connection.
RecvBadClose(s, type) ==
  /\ CanReceive(s)
  /\ requests' = Append(requests,
                   Request(s, type, NoId, Absent, Absent, "done"))
  /\ Send(s, Frame("error", NoId, << >>, Len(requests) + 1))
  /\ sess' = [sess EXCEPT ![s] = "closed"]
  /\ UNCHANGED << invoked, backend >>
  /\ UNCHANGED startupVars
  /\ NoShutdown
  /\ UNCHANGED frontEndVars

\* An outer catch that reports a bad message to every connected client, as
\* wss.clients.forEach would.
RecvBadBroadcast(s, type) ==
  /\ CanReceive(s)
  /\ requests' = Append(requests,
                   Request(s, type, NoId, Absent, Absent, "done"))
  /\ sent' = [t \in Sessions |->
               IF sess[t] = "open"
                 THEN Append(sent[t], [Frame("error", NoId, << >>, Len(requests) + 1)
                                         EXCEPT !.delivered = TRUE])
                 ELSE sent[t]]
  /\ UNCHANGED << sess, invoked, uncaught, backend >>
  /\ UNCHANGED startupVars
  /\ NoShutdown
  /\ UNCHANGED frontEndVars

\* default case (unknown type) and a message JSON.parse rejects: the outer
\* catch sends an error frame without requestId.
RecvBad(s, type) ==
  /\ CanReceive(s)
  /\ requests' = Append(requests,
                   Request(s, type, NoId, Absent, Absent, "done"))
  /\ Send(s, Frame("error", NoId, << >>, Len(requests) + 1))
  /\ UNCHANGED << sess, invoked, backend >>
  /\ UNCHANGED startupVars
  /\ NoShutdown
  /\ UNCHANGED frontEndVars

\* callTool of request u resolves: the tool_response frame is sent.
CallResolve(u) ==
  /\ u \in 1..Len(requests)
  /\ requests[u].state = "pending"
  /\ requests' = [requests EXCEPT ![u].state = "resolved"]
  /\ Send(ReplyTo(u), Frame("tool_response", ReplyId(u), << >>, u))
  /\ UNCHANGED << sess, invoked, backend >>
  /\ UNCHANGED startupVars
  /\ NoShutdown
  /\ UNCHANGED frontEndVars

\* An inner catch that only logs: a rejected callTool sends no frame.
CallRejectSilent(u, kind) ==
  /\ u \in 1..Len(requests)
  /\ requests[u].state = "pending"
  /\ requests' = [requests EXCEPT ![u].state = "rejected"]
  /\ UNCHANGED << sess, sent, invoked, uncaught, backend >>
  /\ UNCHANGED startupVars
  /\ NoShutdown
  /\ UNCHANGED frontEndVars

\* callTool of request u rejects, for either kind of failure: the inner catch
\* sends an error frame.
CallReject(u, kind) ==
  /\ u \in 1..Len(requests)
  /\ requests[u].state = "pending"
  /\ requests' = [requests EXCEPT ![u].state = "rejected"]
  /\ Send(ReplyTo(u), Frame("error", ReplyId(u), << >>, u))
  /\ UNCHANGED << sess, invoked, backend >>
  /\ UNCHANGED startupVars
  /\ NoShutdown
  /\ UNCHANGED frontEndVars

\* A close handler that forgets the providers when a session goes away.
CloseDropsRegistry(s) ==
  /\ sess[s] = "open"
  /\ sess' = [sess EXCEPT ![s] = "closed"]
  /\ mcpClients' = << >>
  /\ UNCHANGED << sent, requests, invoked, uncaught, backend >>
  /\ UNCHANGED << config, initIdx, initPhase, started, outcome, reported >>
  /\ NoShutdown
  /\ UNCHANGED frontEndVars

\* ws.on('close')
Close(s) ==
  /\ sess[s] = "open"
  /\ sess' = [sess EXCEPT ![s] = "closed"]
  /\ UNCHANGED << sent, requests, invoked, uncaught, backend >>
  /\ UNCHANGED startupVars
  /\ NoShutdown
  /\ UNCHANGED frontEndVars

\* ------------------------------- Next ----------------------------------

Next ==
  \/ LoadConfig
  \/ ConnectOk
  \/ ConnectFail
  \/ ListOk
  \/ ListNoTools
  \/ ListFail
  \/ ListHang
  \/ \E s \in Sessions : Connect(s)
  \/ \E s \in Sessions : RecvListTools(s)
  \/ \E s \in Sessions : RecvClientLog(s)
  \/ \E s \in Sessions, sn \in ServerNames, tn \in ToolNames,
        rid \in RequestIds : RecvCallTool(s, sn, tn, rid)
  \/ \E s \in Sessions, t \in {"unknown", "malformed"} : RecvBad(s, t)
  \/ \E u \in 1..MaxMsgs : CallResolve(u)
  \/ \E u \in 1..MaxMsgs, kind \in FailureKinds : CallReject(u, kind)
  \/ \E s \in Sessions : Close(s)

Spec == Init /\ [][Next]_vars

\* The proxy together with the exits of the child processes.
NextExit ==
  \/ Next
  \/ \E p \in Providers : BackendExit(p)

SpecExit == Init /\ [][NextExit]_vars

\* The event loop runs the continuation of every await that settles: the
\* configuration is read, a connect settles one way or the other, and a
\* discovery call either settles or is known never to.
FairSpec ==
  /\ Init
  /\ [][Next]_vars
  /\ WF_vars(LoadConfig)
  /\ WF_vars(ConnectOk \/ ConnectFail)
  /\ WF_vars(ListOk \/ ListNoTools \/ ListFail \/ ListHang)

\* ------------------------- claims: definitions -------------------------

IsCall(u) == requests[u].type = "call_tool"

Completed(u) == requests[u].state \in {"resolved", "rejected"}

\* Positions, in the frames sent to session s, of the frames built by the
\* handler of request u.
RepliesTo(s, u) == { i \in 1..Len(sent[s]) : sent[s][i].req = u }

\* Request u named a (serverName, toolName) pair that was no catalog entry:
\* its server was not registered, or is registered without that tool (a
\* registry entry never changes once set).
AbsentFromCatalog(u) ==
  \/ requests[u].state = "not_found"
  \/ ~HasTool(GetClientInfo(requests[u].serverName).tools, requests[u].toolName)

\* The frame a step appends to the frames of session s.
Appended(s) == sent'[s][Len(sent'[s])]

Appends(s) == Len(sent'[s]) = Len(sent[s]) + 1

EntryOf(p, k) == [name |-> reported[p][k].name, serverName |-> p]

\* -------------------------------- C1 -----------------------------------

\* C1: a call_tool request whose serverName is registered gets no frame while
\* its backend call is outstanding and, once the call has resolved or
\* rejected, exactly one frame was sent for it: to the session that sent the
\* request, carrying the request's requestId, a tool_response after a resolve
\* and an error after a reject.
C1_ExactlyOneReply ==
  \A u \in 1..Len(requests) :
    (IsCall(u) /\ requests[u].state # "not_found") =>
      LET s == requests[u].session
      IN  /\ \A t \in Sessions \ {s} : RepliesTo(t, u) = {}
          /\ IF Completed(u)
               THEN /\ Cardinality(RepliesTo(s, u)) = 1
                    /\ \A i \in RepliesTo(s, u) :
                         /\ sent[s][i].requestId = requests[u].requestId
                         /\ sent[s][i].type =
                              IF requests[u].state = "resolved"
                                THEN "tool_response" ELSE "error"
               ELSE RepliesTo(s, u) = {}

\* A call completed after a later request of its session was answered.
C1_Witness ==
  \E u \in 1..Len(requests), v \in 1..Len(requests) :
    /\ u < v
    /\ IsCall(u) /\ Completed(u)
    /\ requests[v].session = requests[u].session
    /\ \E i \in RepliesTo(requests[u].session, u),
          j \in RepliesTo(requests[u].session, v) : j < i

\* -------------------------------- C2 -----------------------------------

\* C2: every frame sent in answer to a call_tool request that named a pair
\* absent from the catalog carries the requestId of that request.
C2_UnknownNameErrorCarriesId ==
  \A u \in 1..Len(requests) :
    (IsCall(u) /\ AbsentFromCatalog(u)) =>
      \A i \in RepliesTo(requests[u].session, u) :
        sent[requests[u].session][i].requestId = requests[u].requestId

\* -------------------------------- C3 -----------------------------------

\* C3: no callTool is issued for a call_tool request whose (serverName,
\* toolName) pair is not a catalog entry.
C3_NoInvokeOutsideCatalog ==
  \A k \in 1..Len(invoked) : ~AbsentFromCatalog(invoked[k].req)

\* -------------------------------- C4 -----------------------------------

\* C4: every tools_list snapshot that is sent lists only tools of backends
\* whose process is running.
C4_SnapshotsOnlyReady ==
  [][ \A s \in Sessions :
        (Appends(s) /\ Appended(s).type = "tools_list") =>
          \A i \in 1..Len(Appended(s).tools) :
            backend[Appended(s).tools[i].serverName] = "running" ]_vars

\* -------------------------------- C5 -----------------------------------

\* C5: a provider whose connect failed has no registry entry and no tool in
\* the catalog; its failure does not stop the startup loop (the provider
\* after it is started, and a finished startup has started every configured
\* provider); and every tool reported by a registered provider is in the
\* catalog under that provider's name.
C5_LaunchFailureIsolated ==
  \A p \in Providers :
    outcome[p] = "connect_failed" =>
      /\ ~Registered(p)
      /\ \A i \in 1..Len(AllTools) : AllTools[i].serverName # p
      /\ \A i \in 1..Len(config) :
           (config[i] = p /\ i < Len(config)) => config[i + 1] \in started
      /\ initPhase = "done" => Range(config) \subseteq started
      /\ \A q \in Providers :
           outcome[q] = "registered" =>
             /\ Registered(q)
             /\ \A k \in 1..Len(reported[q]) : EntryOf(q, k) \in Range(AllTools)

\* The first provider failed to launch and the second one is in the catalog.
C5_Witness ==
  /\ outcome["a"] = "connect_failed"
  /\ outcome["b"] = "registered"
  /\ \E i \in 1..Len(AllTools) : AllTools[i].serverName = "b"

\* -------------------------------- C6 -----------------------------------

\* C6: whenever the discovery call of one provider failed or hangs, every
\* other configured provider eventually has its own initialization carried
\* out (without which its tools cannot reach the catalog).
C6_OthersEventuallyDiscovered ==
  \A q \in Providers :
    []( ( /\ q \in Range(config)
          /\ \E p \in Providers \ {q} : outcome[p] \in {"list_failed", "hung"} )
        => <>(outcome[q] # "none") )

\* -------------------------------- C7 -----------------------------------

CallsOf(s) ==
  { u \in 1..Len(requests) : IsCall(u) /\ requests[u].session = s }

DistinctIds(s) ==
  \A u \in CallsOf(s), v \in CallsOf(s) :
    requests[u].requestId = requests[v].requestId => u = v

\* C7: in a session whose call_tool requests have distinct requestIds, a
\* frame holding the outcome of a backend call carries the requestId of one
\* request only, the request that backend call was made for.
C7_NoCrossTalk ==
  \A s \in Sessions :
    DistinctIds(s) =>
      \A i \in 1..Len(sent[s]) :
        (sent[s][i].req # 0 /\ IsCall(sent[s][i].req)
           /\ requests[sent[s][i].req].state # "not_found") =>
          \A u \in CallsOf(s) :
            (sent[s][i].requestId = requests[u].requestId) <=> (u = sent[s][i].req)

\* Two calls of one session, distinct ids, completed in the reverse order.
C7_Witness ==
  \E s \in Sessions, u \in 1..Len(requests), v \in 1..Len(requests) :
    /\ u < v
    /\ {u, v} \subseteq CallsOf(s)
    /\ requests[u].requestId # requests[v].requestId
    /\ Completed(u) /\ Completed(v)
    /\ \E i \in RepliesTo(s, u), j \in RepliesTo(s, v) : j < i

\* -------------------------------- C8 -----------------------------------

\* C8: every callTool is invoked on the client registered under the
\* serverName of the request, with the request's toolName, and on no other.
C8_RoutesToNamedBackend ==
  \A k \in 1..Len(invoked) :
    /\ invoked[k].client = requests[invoked[k].req].serverName
    /\ invoked[k].name = requests[invoked[k].req].toolName
    /\ \A j \in 1..Len(invoked) : invoked[j].req = invoked[k].req => j = k

\* a and b both list read_file and a call for each of them was routed.
C8_Witness ==
  /\ HasTool(GetClientInfo("a").tools, "read_file")
  /\ HasTool(GetClientInfo("b").tools, "read_file")
  /\ \E k \in 1..Len(invoked) :
       invoked[k].name = "read_file" /\ requests[invoked[k].req].serverName = "a"
  /\ \E k \in 1..Len(invoked) :
       invoked[k].name = "read_file" /\ requests[invoked[k].req].serverName = "b"

\* -------------------------------- C9 -----------------------------------

RegisteredNow == { p \in Providers : outcome[p] = "registered" }

\* C9: every tools_list snapshot, when it is sent, holds one entry per tool
\* reported by a registered provider, under that provider's registry key: two
\* providers that report the same local name both have their entry, and no
\* entry carries another serverName, whatever the descriptor says.
C9_SnapshotKeyedByProvider ==
  [][ \A s \in Sessions :
        (Appends(s) /\ Appended(s).type = "tools_list") =>
          LET snap == Appended(s).tools
          IN  /\ \A p \in RegisteredNow : \A k \in 1..Len(reported[p]) :
                   Cardinality({ i \in 1..Len(snap) : snap[i] = EntryOf(p, k) }) = 1
              /\ \A i \in 1..Len(snap) :
                   /\ snap[i].serverName \in RegisteredNow
                   /\ \E k \in 1..Len(reported[snap[i].serverName]) :
                        snap[i] = EntryOf(snap[i].serverName, k) ]_vars

\* A snapshot that lists read_file twice, once for a and once for b.
C9_Witness ==
  \E s \in Sessions : \E i \in 1..Len(sent[s]) :
    /\ sent[s][i].type = "tools_list"
    /\ [name |-> "read_file", serverName |-> "a"] \in Range(sent[s][i].tools)
    /\ [name |-> "read_file", serverName |-> "b"] \in Range(sent[s][i].tools)

\* -------------------------------- C10 ----------------------------------

\* The catalog as the providers' answers define it: the tools each registered
\* provider reported, under its name.
CatalogEntries ==
  UNION { { EntryOf(p, k) : k \in 1..Len(reported[p]) } : p \in RegisteredNow }

\* C10: a session is sent nothing before it connects, and the step that
\* connects it sends it exactly one frame, delivered: a tools_list whose
\* entries are the catalog of that moment, also when that catalog is empty.
C10_FirstFrameIsSnapshot ==
  [][ \A s \in Sessions :
        /\ sess[s] = "new" => sent[s] = << >>
        /\ (sess[s] = "new" /\ sess'[s] # "new") =>
             /\ Len(sent'[s]) = 1
             /\ sent'[s][1].type = "tools_list"
             /\ sent'[s][1].delivered
             /\ Range(sent'[s][1].tools) = CatalogEntries
             /\ Len(sent'[s][1].tools) = Cardinality(CatalogEntries) ]_vars

\* One session connected to an empty catalog, another to a catalog with tools.
C10_Witness ==
  \E s \in Sessions, t \in Sessions :
    /\ sess[s] # "new" /\ sess[t] # "new"
    /\ Len(sent[s]) >= 1 /\ sent[s][1].tools = << >>
    /\ Len(sent[t]) >= 1 /\ sent[t][1].tools # << >>

\* ------------------------------ shutdown -------------------------------

\* The for-of loop of cleanup arrives at position k of the registry (the
\* iterator of a Map is live: an entry set meanwhile is visited too): it
\* calls disconnect on the client there and awaits it, or, past the last
\* entry, calls process.exit(0).
CleanupFrom(k) ==
  IF k <= Len(mcpClients)
    THEN /\ cleanupIdx' = k
         /\ attempted' = attempted \cup {mcpClients[k].client}
         /\ exitCode' = exitCode
    ELSE /\ cleanupIdx' = k
         /\ attempted' = attempted
         /\ exitCode' = 0

\* SIGINT or SIGTERM arrives: cleanup starts its loop.
cleanup ==
  /\ cleanupIdx = 0
  /\ exitCode = -1
  /\ CleanupFrom(1)
  /\ UNCHANGED backend
  /\ UNCHANGED startupVars
  /\ UNCHANGED sessionVars
  /\ UNCHANGED frontEndVars

\* A loop without try and catch: a disconnect that throws ends cleanup, the
\* rejection is unhandled and the process dies with code 1.
cleanupResumeAbort(ok) ==
  /\ cleanupIdx >= 1
  /\ exitCode = -1
  /\ IF ok
       THEN /\ backend' = [backend EXCEPT ![mcpClients[cleanupIdx].client] = "exited"]
            /\ CleanupFrom(cleanupIdx + 1)
       ELSE /\ backend' = backend
            /\ exitCode' = 1
            /\ UNCHANGED << cleanupIdx, attempted >>
  /\ UNCHANGED startupVars
  /\ UNCHANGED sessionVars
  /\ UNCHANGED frontEndVars

\* The awaited disconnect settles: when it resolved the child process of that
\* client is gone, when it threw the catch logs it; the loop goes on.
cleanupResume(ok) ==
  /\ cleanupIdx >= 1
  /\ exitCode = -1
  /\ backend' = IF ok
                  THEN [backend EXCEPT ![mcpClients[cleanupIdx].client] = "exited"]
                  ELSE backend
  /\ CleanupFrom(cleanupIdx + 1)
  /\ UNCHANGED startupVars
  /\ UNCHANGED sessionVars
  /\ UNCHANGED frontEndVars

\* The proxy with its signal handlers: after process.exit nothing runs.
NextShutdown ==
  \/ Next
  \/ cleanup
  \/ \E ok \in BOOLEAN : cleanupResume(ok)

SpecShutdown == Init /\ [][NextShutdown]_vars

\* callTool of request u resolves with a result that reports the failure of
\* the tool itself (isError: true, the MCP way to report a tool's execution
\* error): the handler does not look into the result, logs "executed
\* successfully" and sends the tool_response frame with success: true.
CallResolveIsError(u) ==
  /\ u \in 1..Len(requests)
  /\ requests[u].state = "pending"
  /\ requests' = [requests EXCEPT ![u].state = "tool_failed"]
  /\ Send(ReplyTo(u), Frame("tool_response", ReplyId(u), << >>, u))
  /\ UNCHANGED << sess, invoked, backend >>
  /\ UNCHANGED startupVars
  /\ NoShutdown
  /\ UNCHANGED frontEndVars

\* The proxy with the results of callTool told apart by what they report.
NextToolResult ==
  \/ Next
  \/ \E u \in 1..MaxMsgs : CallResolveIsError(u)

SpecToolResult == Init /\ [][NextToolResult]_vars

\* Startup proceeds, and every await of callTool is resumed once the backend
\* has answered: a pending call does not stay pending forever.
FairCallSpec ==
  /\ FairSpec
  /\ \A u \in 1..MaxMsgs :
       WF_vars(CallResolve(u) \/ \E kind \in FailureKinds : CallReject(u, kind))

\* -------------------------------- C11 ----------------------------------

\* The step is the arrival of a message of the given type from session s.
Received(s, type) ==
  /\ Len(requests') = Len(requests) + 1
  /\ requests'[Len(requests')].session = s
  /\ requests'[Len(requests')].type = type

\* C11: the step that processes a list_tools request of a session sends that
\* session exactly one frame, delivered, a tools_list whose entries are the
\* catalog of that moment, and sends no frame to any other session.
C11_ListReplyIsCurrentCatalog ==
  [][ \A s \in Sessions :
        Received(s, "list_tools") =>
          /\ Appends(s)
          /\ \A i \in 1..Len(sent[s]) : sent'[s][i] = sent[s][i]
          /\ Appended(s).type = "tools_list"
          /\ Appended(s).delivered
          /\ Appended(s).req = Len(requests')
          /\ Range(Appended(s).tools) = CatalogEntries
          /\ Len(Appended(s).tools) = Cardinality(CatalogEntries)
          /\ \A t \in Sessions \ {s} : sent'[t] = sent[t] ]_vars

\* A session that connected to an empty catalog and whose list_tools request
\* was answered with tools, while another session was connected.
C11_Witness ==
  \E s \in Sessions, t \in Sessions :
    /\ s # t /\ sess[t] = "open"
    /\ Len(sent[s]) >= 2
    /\ sent[s][1].tools = << >>
    /\ \E i \in 2..Len(sent[s]) :
         /\ sent[s][i].type = "tools_list"
         /\ sent[s][i].req # 0
         /\ requests[sent[s][i].req].type = "list_tools"
         /\ sent[s][i].tools # << >>

\* -------------------------------- C12 ----------------------------------

\* The step is the arrival of the backend's answer to the pending call u.
Settles(u) ==
  /\ u \in 1..Len(requests)
  /\ requests[u].state = "pending"
  /\ requests'[u].state \in {"resolved", "rejected"}

\* The step changes no request other than u and adds none.
OnlyRequestChanged(u) ==
  /\ Len(requests') = Len(requests)
  /\ \A v \in 1..Len(requests) : v # u => requests'[v] = requests[v]

\* C12: when the answer to a call arrives after the session of the call was
\* closed, no session receives a frame for it (the frame handed to the closed
\* socket is not delivered), nothing is thrown out of the handler, and the
\* registry, the sessions and every other request stay as they were.
C12_LateResultDiscarded ==
  [][ \A u \in 1..MaxMsgs :
        (Settles(u) /\ sess[requests[u].session] = "closed") =>
          /\ \A t \in Sessions :
               \A i \in 1..Len(sent'[t]) :
                 sent'[t][i].req = u => ~sent'[t][i].delivered
          /\ \A t \in Sessions \ {requests[u].session} : sent'[t] = sent[t]
          /\ uncaught' = FALSE
          /\ mcpClients' = mcpClients
          /\ sess' = sess
          /\ OnlyRequestChanged(u) ]_vars

\* A call settled after its session was closed, while a call of the other
\* session, still open, was pending.
C12_Witness ==
  \E u \in 1..Len(requests), v \in 1..Len(requests) :
    /\ IsCall(u) /\ Completed(u)
    /\ sess[requests[u].session] = "closed"
    /\ \E i \in RepliesTo(requests[u].session, u) :
         ~sent[requests[u].session][i].delivered
    /\ IsCall(v) /\ requests[v].state = "pending"
    /\ requests[v].session # requests[u].session
    /\ sess[requests[v].session] = "open"

\* -------------------------------- C13 ----------------------------------

\* C13: a frame built for a call is only ever in the frames of the session
\* that sent the call, whatever requestId other sessions use; closing a
\* session changes no request and sends nothing; and the answer to a pending
\* call whose session is open is delivered to that session, whatever happened
\* to the other sessions.
C13_ReplyOnlyToSubmitter ==
  [][ /\ \A s \in Sessions : \A i \in 1..Len(sent'[s]) :
           (sent'[s][i].req # 0 /\ requests'[sent'[s][i].req].type = "call_tool")
             => requests'[sent'[s][i].req].session = s
      /\ \A s \in Sessions :
           (sess[s] = "open" /\ sess'[s] = "closed") =>
             /\ requests' = requests
             /\ sent' = sent
      /\ \A u \in 1..MaxMsgs :
           (Settles(u) /\ sess[requests[u].session] = "open") =>
             /\ Appends(requests[u].session)
             /\ Appended(requests[u].session).req = u
             /\ Appended(requests[u].session).delivered
             /\ Appended(requests[u].session).requestId = requests[u].requestId ]_vars

\* Two sessions had calls with the same requestId in flight together: the
\* later one was answered and delivered, its session then closed, and the
\* earlier one is still pending on the open session.
C13_Witness ==
  \E u \in 1..Len(requests), v \in 1..Len(requests) :
    /\ u < v
    /\ IsCall(u) /\ IsCall(v)
    /\ requests[u].session # requests[v].session
    /\ requests[u].requestId = requests[v].requestId
    /\ requests[u].state = "pending" /\ sess[requests[u].session] = "open"
    /\ Completed(v) /\ sess[requests[v].session] = "closed"
    /\ \E i \in RepliesTo(requests[v].session, v) :
         sent[requests[v].session][i].delivered

\* -------------------------------- C14 ----------------------------------

\* Positions, in the frames sent to session s, of the result-or-error frames
\* that carry the requestId r.
FramesForId(s, r) ==
  { i \in 1..Len(sent[s]) :
      /\ sent[s][i].type \in {"tool_response", "error"}
      /\ sent[s][i].requestId = r }

\* C14: the frames sent to a session hold at most one result-or-error frame
\* for any one requestId.
C14_IdResolvedAtMostOnce ==
  \A s \in Sessions : \A r \in RequestIds : Cardinality(FramesForId(s, r)) <= 1

\* -------------------------------- C15 ----------------------------------

\* Positions of the frames built for request u that its session received.
Notified(u) ==
  { i \in RepliesTo(requests[u].session, u) : sent[requests[u].session][i].delivered }

\* The call u has had its outcome: one notification, carrying its requestId,
\* or none at all with its session closed.
Answered(u) ==
  \/ /\ Cardinality(Notified(u)) = 1
     /\ \A i \in Notified(u) :
          /\ sent[requests[u].session][i].type \in {"tool_response", "error"}
          /\ sent[requests[u].session][i].requestId = requests[u].requestId
  \/ /\ Notified(u) = {}
     /\ sess[requests[u].session] = "closed"

\* C15: every call_tool request is eventually answered, by exactly one
\* tool_response or error frame that carries its requestId, or by nothing when
\* its session closed before the answer; it never gets a second notification.
C15_EveryCallAnswered ==
  \A u \in 1..MaxMsgs :
    /\ (u <= Len(requests) /\ IsCall(u)) ~> (u <= Len(requests) /\ Answered(u))
    /\ [](u <= Len(requests) /\ IsCall(u) => Cardinality(Notified(u)) <= 1)

\* -------------------------------- C16 ----------------------------------

\* Session s sent a message of the given type before.
HasSent(s, type) ==
  \E u \in 1..Len(requests) :
    requests[u].session = s /\ requests[u].type = type

\* C16: the step that receives a message of an unhandled type sends its
\* session exactly one frame, an error, delivered, and leaves the session
\* open; and a list_tools or call_tool message that such a session sends
\* afterwards is processed as usual: answered with the tools list, or routed
\* to its backend or refused with an error.
C16_UnknownTypeReported ==
  [][ \A s \in Sessions :
        /\ Received(s, "unknown") =>
             /\ Appends(s)
             /\ \A i \in 1..Len(sent[s]) : sent'[s][i] = sent[s][i]
             /\ Appended(s).type = "error"
             /\ Appended(s).delivered
             /\ Appended(s).req = Len(requests')
             /\ sess'[s] = "open"
        /\ (HasSent(s, "unknown") /\ Received(s, "list_tools")) =>
             /\ Appends(s)
             /\ Appended(s).type = "tools_list"
             /\ Appended(s).delivered
        /\ (HasSent(s, "unknown") /\ Received(s, "call_tool")) =>
             \/ /\ requests'[Len(requests')].state = "pending"
                /\ Len(invoked') = Len(invoked) + 1
                /\ invoked'[Len(invoked')].req = Len(requests')
             \/ /\ requests'[Len(requests')].state = "not_found"
                /\ Appends(s)
                /\ Appended(s).type = "error" ]_vars

\* A session whose first message had an unknown type and whose second was a
\* call that was then answered.
C16_Witness ==
  \E s \in Sessions :
    /\ Len(requests) = 2
    /\ requests[1].session = s /\ requests[1].type = "unknown"
    /\ requests[2].session = s /\ IsCall(2) /\ requests[2].state = "resolved"
    /\ \E i \in RepliesTo(s, 1), j \in RepliesTo(s, 2) :
         /\ i < j
         /\ sent[s][i].type = "error" /\ sent[s][i].delivered
         /\ sent[s][j].type = "tool_response" /\ sent[s][j].delivered

\* -------------------------------- C17 ----------------------------------

\* C17: the step that receives a message that cannot be parsed, or whose type
\* is none of the handled ones, sends one error frame to the sending session
\* and none to any other session, changes no registry entry and no earlier
\* request, closes nothing, and no exception escapes the handler.
C17_MalformedReportedToSenderOnly ==
  [][ \A s \in Sessions :
        (Received(s, "malformed") \/ Received(s, "unknown")) =>
          /\ Appends(s)
          /\ \A i \in 1..Len(sent[s]) : sent'[s][i] = sent[s][i]
          /\ Appended(s).type = "error"
          /\ Appended(s).delivered
          /\ \A t \in Sessions \ {s} : sent'[t] = sent[t]
          /\ mcpClients' = mcpClients
          /\ sess' = sess
          /\ uncaught' = FALSE
          /\ \A v \in 1..Len(requests) : requests'[v] = requests[v] ]_vars

\* A malformed message arrived while the other session was open with a call
\* pending and a backend was registered.
C17_Witness ==
  \E s \in Sessions, t \in Sessions :
    /\ s # t
    /\ Len(requests) = 2
    /\ requests[1].session = t /\ IsCall(1) /\ requests[1].state = "pending"
    /\ sess[t] = "open"
    /\ requests[2].session = s /\ requests[2].type = "malformed"
    /\ RepliesTo(s, 2) # {}
    /\ mcpClients # << >>

\* -------------------------------- C18 ----------------------------------

\* The backend call of request u failed: callTool rejected, or its result
\* reports the failure of the tool.
InvokeFailed(u) == requests[u].state \in {"rejected", "tool_failed"}

\* C18: for every call whose backend invoke failed, whatever the kind of
\* failure, exactly one frame was sent, to the session of the call: an error
\* frame that carries the call's requestId; no other session has a frame for
\* it and no exception escaped the handler.
C18_InvokeFailureIsErrorFrame ==
  \A u \in 1..Len(requests) :
    (IsCall(u) /\ InvokeFailed(u)) =>
      /\ Cardinality(RepliesTo(requests[u].session, u)) = 1
      /\ \A i \in RepliesTo(requests[u].session, u) :
           /\ sent[requests[u].session][i].type = "error"
           /\ sent[requests[u].session][i].requestId = requests[u].requestId
      /\ \A t \in Sessions \ {requests[u].session} : RepliesTo(t, u) = {}
      /\ ~uncaught

\* -------------------------------- C19 ----------------------------------

\* Provider p failed during its initialization: its connect or its listTools
\* rejected.
InitFailed(p) == outcome[p] \in {"connect_failed", "list_failed"}

\* C19: once the initialization of a provider has failed, no step works on
\* that provider again (no connect, no listTools), its outcome stays what it
\* was, the registry never has an entry under its name, and no tools list
\* that is sent holds an entry of it.
C19_FailedNeverHealed ==
  [][ \A p \in Providers :
        InitFailed(p) =>
          /\ outcome'[p] = outcome[p]
          /\ ~(/\ initPhase' \in {"connect", "list", "hung"}
                /\ config'[initIdx'] = p)
          /\ \A k \in 1..Len(mcpClients') : mcpClients'[k].name # p
          /\ \A s \in Sessions :
               (Appends(s) /\ Appended(s).type = "tools_list") =>
                 \A i \in 1..Len(Appended(s).tools) :
                   Appended(s).tools[i].serverName # p ]_vars

\* The first provider failed after its transport had connected, the second
\* one registered, and a session then asked for the tools list and got it.
C19_Witness ==
  /\ outcome["a"] = "list_failed"
  /\ outcome["b"] = "registered"
  /\ initPhase = "done"
  /\ \E s \in Sessions : \E i \in 1..Len(sent[s]) :
       /\ sent[s][i].type = "tools_list"
       /\ sent[s][i].req # 0
       /\ sent[s][i].tools # << >>

\* -------------------------------- C20 ----------------------------------

\* C20: when the proxy has exited, no child process that startup started is
\* still running, whether or not its provider got registered.
C20_AllStartedDestroyedAtExit ==
  exitCode # -1 => \A p \in Providers : backend[p] # "running"

\* --------------------------- tool conversion ---------------------------

\* JavaScript values of the descriptors: undefined, null, a string (its
\* characters), an array, an object with a map of fields.
Undefined == [js |-> "undefined"]
Null == [js |-> "null"]
Str(chars) == [js |-> "string", chars |-> chars]
Arr(elems) == [js |-> "array", elems |-> elems]
Obj(fields) == [js |-> "object", fields |-> fields]

\* value is undefined or null: what ?. stops at and what || replaces.
Nullish(value) == value.js \in {"undefined", "null"}

\* The characters the regular expression of cleanDescription matches: the
\* single quote, the double quote and the backtick (a character is written
\* by its name).
Quotes == {"quote", "dquote", "backtick"}

NotQuote(c) == c \notin Quotes

\* A cleanDescription without its default: an absent description stays absent.
cleanDescriptionNoDefault(desc) ==
  IF Nullish(desc) THEN Undefined
  ELSE Str(SelectSeq(desc.chars, NotQuote))

\* desc?.replace(quotes, '') || ''
cleanDescription(desc) ==
  IF Nullish(desc) THEN Str(<< >>)
  ELSE Str(SelectSeq(desc.chars, NotQuote))

\* An item type without the final default: an unknown or missing type is
\* handed on as it is.
ItemTypeNoDefault(items) ==
  IF Nullish(items) THEN "undefined"
  ELSE IF items.type = "string" THEN "STRING"
  ELSE IF items.type = "number" THEN "NUMBER"
  ELSE IF items.type = "boolean" THEN "BOOLEAN"
  ELSE IF items.type = "object" THEN "OBJECT"
  ELSE items.type

\* The ternary chain on prop.items?.type: STRING is the default.
ItemType(items) ==
  IF Nullish(items) THEN "STRING"
  ELSE IF items.type = "string" THEN "STRING"
  ELSE IF items.type = "number" THEN "NUMBER"
  ELSE IF items.type = "boolean" THEN "BOOLEAN"
  ELSE IF items.type = "object" THEN "OBJECT"
  ELSE "STRING"

\* The ternary chain on the type of a property that is no array, and of a
\* nested property: OBJECT is the default.
PropType(type) ==
  IF type = "string" THEN "STRING"
  ELSE IF type = "number" THEN "NUMBER"
  ELSE IF type = "boolean" THEN "BOOLEAN"
  ELSE "OBJECT"

\* A required list handed on as the provider gave it, undefined included.
OrNothing(value) == value

\* value || []
OrEmpty(value) == IF Nullish(value) THEN Arr(<< >>) ELSE value

\* The reduce over prop.items.properties.
ConvertSubProps(fields) ==
  [k \in DOMAIN fields |->
     [type |-> PropType(fields[k].type),
      description |-> cleanDescription(fields[k].description)]]

\* prop.items?.properties is truthy.
HasItemProps(prop) ==
  /\ ~Nullish(prop.items)
  /\ ~Nullish(prop.items.properties)

\* The body of the forEach over the properties of the input schema.
ConvertProperty(prop) ==
  IF prop.type = "array"
    THEN IF HasItemProps(prop)
           THEN [type |-> "ARRAY",
                 items |-> [type |-> ItemType(prop.items),
                            properties |-> ConvertSubProps(prop.items.properties.fields),
                            required |-> OrEmpty(prop.items.required)],
                 description |-> cleanDescription(prop.description)]
           ELSE [type |-> "ARRAY",
                 items |-> [type |-> ItemType(prop.items)],
                 description |-> cleanDescription(prop.description)]
    ELSE [type |-> PropType(prop.type),
          description |-> cleanDescription(prop.description)]

\* !tool.inputSchema?.properties
NoSchemaProperties(tool) ==
  \/ Nullish(tool.inputSchema)
  \/ Nullish(tool.inputSchema.properties)

convertToolToFunctionDeclaration(tool) ==
  IF NoSchemaProperties(tool)
    THEN [name |-> tool.name,
          description |-> cleanDescription(tool.description),
          parameters |-> [type |-> "OBJECT",
                          properties |-> [k \in {} |-> Undefined],
                          required |-> Arr(<< >>)]]
    ELSE [name |-> tool.name,
          description |-> cleanDescription(tool.description),
          parameters |->
            [type |-> "OBJECT",
             properties |->
               [k \in DOMAIN tool.inputSchema.properties.fields |->
                  ConvertProperty(tool.inputSchema.properties.fields[k])],
             required |-> OrEmpty(tool.inputSchema.required)]]

\* The descriptors the conversion is checked on.
Descriptions ==
  {Undefined, Null, Str(<< >>), Str(<<"x", "quote", "y">>)}

SubProps ==
  [type : {"string", "integer"}, description : {Undefined, Str(<<"x">>)}]

ItemProps ==
  {Undefined, Obj([k \in {} |-> Undefined])}
    \cup { Obj([k \in {"sub"} |-> sp]) : sp \in SubProps }

Items ==
  {Undefined, Null}
    \cup [js : {"object"},
          type : {"undefined", "string", "number", "object"},
          properties : ItemProps,
          required : {Undefined, Arr(<< >>), Arr(<<"sub">>)}]

Props ==
  [type : {"string", "boolean", "object", "undefined"},
   description : {Undefined, Str(<<"backtick", "x">>)},
   items : {Undefined}]
    \cup [type : {"array"},
          description : {Undefined, Str(<<"backtick", "x">>)},
          items : Items]

InputSchemas ==
  {Undefined}
    \cup [js : {"object"}, properties : {Undefined}, required : {Undefined}]
    \cup [js : {"object"},
          properties : { Obj([k \in {"k"} |-> pr]) : pr \in Props },
          required : {Undefined, Arr(<<"k">>)}]

Tools ==
  [name : {"t"}, description : Descriptions, serverName : {"a"},
   inputSchema : InputSchemas]

\* A second descriptor the front end holds next to the one under test: its
\* one property is an array without items.
OtherTools ==
  [name : {"u"}, description : {Str(<<"z">>)}, serverName : {"a"},
   inputSchema :
     [js : {"object"},
      properties :
        {Obj([k \in {"m"} |->
                [type |-> "array", description |-> Undefined, items |-> Undefined]])},
      required : {Undefined}]]

\* The front end holds two descriptors; the proxy plays no part.
InitConvert ==
  /\ ProxyInit
  /\ mcpTools \in { <<t, u>> : t \in Tools, u \in OtherTools }
  /\ declarations = << >>
  /\ ClientInit
  /\ AltairInit

\* The properties of two conversions in one object, the later ones winning.
MergeProps(prev, own) ==
  [k \in DOMAIN prev \cup DOMAIN own |->
     IF k \in DOMAIN own THEN own[k] ELSE prev[k]]

\* A conversion whose convertedProperties object is a variable of the module
\* instead of a local one: it still holds the properties of earlier calls.
ConvertCallHoisted(i) ==
  /\ i \in 1..Len(mcpTools)
  /\ Len(declarations) < MaxCalls
  /\ declarations' =
       Append(declarations,
         [arg |-> i, tool |-> mcpTools[i],
          result |->
            IF declarations = << >>
              THEN convertToolToFunctionDeclaration(mcpTools[i])
              ELSE [convertToolToFunctionDeclaration(mcpTools[i])
                      EXCEPT !.parameters.properties =
                        MergeProps(
                          declarations[Len(declarations)].result.parameters.properties,
                          @)]])
  /\ mcpTools' = mcpTools
  /\ UNCHANGED proxyVars
  /\ UNCHANGED << clientVars, handlerVars, altairVars >>

\* The front end calls convertToolToFunctionDeclaration on the i-th
\* descriptor it holds: a new object is built from the argument, which is
\* only read.
ConvertCall(i) ==
  /\ i \in 1..Len(mcpTools)
  /\ Len(declarations) < MaxCalls
  /\ declarations' =
       Append(declarations,
         [arg |-> i, tool |-> mcpTools[i],
          result |-> convertToolToFunctionDeclaration(mcpTools[i])])
  /\ mcpTools' = mcpTools
  /\ UNCHANGED proxyVars
  /\ UNCHANGED << clientVars, handlerVars, altairVars >>

NextConvert == \E i \in 1..2 : ConvertCall(i)

SpecConvert == InitConvert /\ [][NextConvert]_vars

\* ------------------------ filterAndConvertTools -------------------------

\* skipServers
SkipServers == {"filesystem", "docker-mcp"}

\* A filter that skips no server.
ValidToolAnyServer(tool) == ~NoSchemaProperties(tool)

\* The callback of tools.filter: the tool has schema properties and its
\* server is not one of skipServers.
ValidTool(tool) ==
  /\ ~NoSchemaProperties(tool)
  /\ tool.serverName \notin SkipServers

\* filterAndConvertTools(tools): filter, then map, both in array order.
filterAndConvertTools(tools) ==
  LET validTools == SelectSeq(tools, ValidTool)
  IN  [i \in 1..Len(validTools) |->
         convertToolToFunctionDeclaration(validTools[i])]

\* The descriptors filterAndConvertTools is checked on: no schema, a schema
\* without properties, with an empty properties object and with one property,
\* from a skipped server or another.
FilterTools ==
  [name : {"t", "u"}, description : {Str(<<"z">>)},
   serverName : {"filesystem", "docker-mcp", "a"},
   inputSchema :
     {Undefined}
       \cup [js : {"object"},
             properties :
               {Undefined, Obj([k \in {} |-> Undefined]),
                Obj([k \in {"k"} |->
                       [type |-> "string", description |-> Undefined,
                        items |-> Undefined]])},
             required : {Undefined}]]

\* Altair holds up to MaxTools descriptors; the proxy plays no part.
InitFilter ==
  /\ ProxyInit
  /\ mcpTools \in UNION { [1..n -> FilterTools] : n \in 0..MaxTools }
  /\ declarations = << >>
  /\ ClientInit
  /\ AltairInit

\* const functionDeclarations = filterAndConvertTools(mcpTools)
FilterCall ==
  /\ functionDeclarations.js = "undefined"
  /\ functionDeclarations' = Arr(filterAndConvertTools(mcpTools))
  /\ UNCHANGED << ws, altairSent, altairRead, functionCalls, toolResponses >>
  /\ UNCHANGED << converterVars, clientVars, handlerVars >>
  /\ UNCHANGED proxyVars

NextFilter == FilterCall

SpecFilter == InitFilter /\ [][NextFilter]_vars

\* ------------------------- MCPWebSocketClient --------------------------

\* The proxy session that the front end's socket is.
FrontSession == "s1"

\* An empty Map of handlers.
NoHandlers == [r \in {} |-> 0]

\* The message of the n-th call of sendOrQueue; queued tells whether it went
\* through messageQueue.
ClientMessage(type, n) ==
  [type |-> type, seq |-> n, queued |-> FALSE, requestId |-> NoId,
   serverName |-> Absent, toolName |-> Absent]

RECURSIVE Reverse(_)
Reverse(q) ==
  IF q = << >> THEN << >> ELSE Append(Reverse(Tail(q)), Head(q))

\* An onopen that empties the queue with pop() instead of shift().
onopenPop ==
  /\ readyState = "connecting"
  /\ readyState' = "open"
  /\ connected' = TRUE
  /\ wsSent' = wsSent \o Reverse(messageQueue)
  /\ messageQueue' = << >>
  /\ UNCHANGED sequence
  /\ UNCHANGED handlerVars
  /\ UNCHANGED << converterVars, altairVars >>
  /\ UNCHANGED proxyVars

\* ws.onopen: connected is set and the queue is sent, first in first out
\* (every queued message is an object, so if (msg) lets it through).
onopen ==
  /\ readyState = "connecting"
  /\ readyState' = "open"
  /\ connected' = TRUE
  /\ wsSent' = wsSent \o messageQueue
  /\ messageQueue' = << >>
  /\ UNCHANGED sequence
  /\ UNCHANGED handlerVars
  /\ UNCHANGED << converterVars, altairVars >>
  /\ UNCHANGED proxyVars

\* sendOrQueue(message): sent when connected is set, queued otherwise. A
\* browser socket that is closing or closed discards what send is given.
sendOrQueue(message) ==
  /\ sequence' = sequence + 1
  /\ IF connected
       THEN /\ wsSent' = IF readyState = "open"
                           THEN Append(wsSent, message) ELSE wsSent
            /\ messageQueue' = messageQueue
       ELSE /\ messageQueue' = Append(messageQueue, [message EXCEPT !.queued = TRUE])
            /\ wsSent' = wsSent
  /\ UNCHANGED << readyState, connected, received >>
  /\ UNCHANGED << converterVars, altairVars >>
  /\ UNCHANGED proxyVars

\* onToolsUpdate(callback): the callback replaces the one set before, and
\* the tools list is asked for. callback is the promise it resolves.
onToolsUpdate(callback) ==
  /\ sequence < MaxClientMsgs
  /\ toolsUpdateCallback' = callback
  /\ sendOrQueue(ClientMessage("list_tools", sequence + 1))
  /\ UNCHANGED << messageHandlers, promises >>

\* createMCPClient(name, config): a new promise, resolved by the callback
\* handed to wsClient.onToolsUpdate. Neither argument is used.
createMCPClient ==
  /\ created' = Append(created, [state |-> "pending", tools |-> << >>])
  /\ onToolsUpdate(Len(created) + 1)

\* The request ids in use so far; Math.random may repeat one.
ClientIds == { promises[k].requestId : k \in 1..Len(promises) }

\* messageHandlers.set(requestId, resolve)
HandlersSet(requestId, k) ==
  [r \in DOMAIN messageHandlers \cup {requestId} |->
     IF r = requestId THEN k ELSE messageHandlers[r]]

\* messageHandlers.delete(requestId)
HandlersDelete(requestId) ==
  [r \in DOMAIN messageHandlers \ {requestId} |-> messageHandlers[r]]

\* callTool(serverName, toolName, args): a new promise whose resolve is
\* stored under a random requestId, and the call is sent. reject is never
\* stored.
callTool(serverName, toolName) ==
  /\ sequence < MaxClientMsgs
  /\ \E requestId \in RequestIds :
       /\ requestId = "r2" => "r1" \in ClientIds
       /\ promises' = Append(promises,
            [requestId |-> requestId, state |-> "pending", invoked |-> 0])
       /\ messageHandlers' = HandlersSet(requestId, Len(promises) + 1)
       /\ sendOrQueue([ClientMessage("call_tool", sequence + 1)
                         EXCEPT !.requestId = requestId,
                                !.serverName = serverName,
                                !.toolName = toolName])
  /\ UNCHANGED << toolsUpdateCallback, created >>

\* callMCPTool(serverName, toolName, args)
callMCPTool(serverName, toolName) == callTool(serverName, toolName)

\* An onmessage whose tool_response case leaves the handler in the Map.
onmessageKeepHandler(message) ==
  /\ IF message.type = "tool_response" /\ message.requestId \in DOMAIN messageHandlers
       THEN promises' = [promises EXCEPT
              ![messageHandlers[message.requestId]].state = "resolved",
              ![messageHandlers[message.requestId]].invoked = @ + 1]
       ELSE promises' = promises
  /\ IF message.type = "tools_list" /\ toolsUpdateCallback # 0
       THEN created' = [created EXCEPT ![toolsUpdateCallback] =
                          [state |-> "resolved", tools |-> message.tools]]
       ELSE created' = created
  /\ UNCHANGED << messageHandlers, toolsUpdateCallback >>

\* ws.onmessage: a tools_list frame goes to the callback set last, a
\* tool_response frame to the handler stored under its requestId, which is
\* then deleted; an error frame is logged.
onmessage(message) ==
  /\ IF message.type = "tool_response" /\ message.requestId \in DOMAIN messageHandlers
       THEN /\ promises' = [promises EXCEPT
                   ![messageHandlers[message.requestId]].state = "resolved",
                   ![messageHandlers[message.requestId]].invoked = @ + 1]
            /\ messageHandlers' = HandlersDelete(message.requestId)
       ELSE UNCHANGED << promises, messageHandlers >>
  /\ IF message.type = "tools_list" /\ toolsUpdateCallback # 0
       THEN created' = [created EXCEPT ![toolsUpdateCallback] =
                          [state |-> "resolved", tools |-> message.tools]]
       ELSE created' = created
  /\ UNCHANGED toolsUpdateCallback

\* The connection fails or ends: the socket is closing, its close event has
\* not been handled yet.
SocketCloses ==
  /\ readyState \in {"connecting", "open"}
  /\ readyState' = "closing"
  /\ UNCHANGED << connected, messageQueue, wsSent, sequence >>
  /\ UNCHANGED handlerVars
  /\ UNCHANGED << converterVars, altairVars >>
  /\ UNCHANGED proxyVars

\* ws.onclose
onclose ==
  /\ readyState = "closing"
  /\ readyState' = "closed"
  /\ connected' = FALSE
  /\ UNCHANGED << messageQueue, wsSent, sequence >>
  /\ UNCHANGED handlerVars
  /\ UNCHANGED << converterVars, altairVars >>
  /\ UNCHANGED proxyVars

NextClient ==
  \/ onopen
  \/ createMCPClient
  \/ \E sn \in ServerNames, tn \in ToolNames : callMCPTool(sn, tn)
  \/ SocketCloses
  \/ onclose

SpecClient == Init /\ [][NextClient]_vars

\* ------------------- the front end's socket and the proxy ---------------

\* switch (request.type) on the next message the front end's socket
\* transmitted: the proxy receives them in order, all on FrontSession.
ProxyReceives(transmitted) ==
  /\ Len(requests) < Len(transmitted)
  /\ LET request == transmitted[Len(requests) + 1]
     IN  CASE request.type = "list_tools" -> RecvListTools(FrontSession)
           [] request.type = "client_log" -> RecvClientLog(FrontSession)
           [] request.type = "call_tool" ->
                RecvCallTool(FrontSession, request.serverName,
                             request.toolName, request.requestId)
           [] OTHER -> RecvBad(FrontSession, request.type)

\* The frames the proxy sent on FrontSession.
Frames == sent[FrontSession]

\* The next frame of the proxy reaches ws.onmessage of MCPWebSocketClient.
Deliver ==
  /\ readyState = "open"
  /\ Len(received) < Len(Frames)
  /\ Frames[Len(received) + 1].delivered
  /\ received' = Append(received, Frames[Len(received) + 1])
  /\ onmessage(Frames[Len(received) + 1])
  /\ UNCHANGED clientVars
  /\ UNCHANGED << converterVars, altairVars >>
  /\ UNCHANGED proxyVars

\* The frames a server may send to the socket, the proxy or any other.
AnyFrames ==
  { [Frame("tool_response", requestId, << >>, 0) EXCEPT !.delivered = TRUE] :
      requestId \in RequestIds \cup {NoId} }
  \cup { [Frame("error", "r1", << >>, 0) EXCEPT !.delivered = TRUE],
         [Frame("tools_list", NoId, << >>, 0) EXCEPT !.delivered = TRUE] }

\* A frame reaches ws.onmessage of MCPWebSocketClient.
Arrives(message) ==
  /\ readyState = "open"
  /\ Len(received) < MaxClientMsgs
  /\ received' = Append(received, message)
  /\ onmessage(message)
  /\ UNCHANGED clientVars
  /\ UNCHANGED << converterVars, altairVars >>
  /\ UNCHANGED proxyVars

\* MCPWebSocketClient with any frame arriving at any time.
NextClientFrames ==
  \/ NextClient
  \/ \E message \in AnyFrames : Arrives(message)

SpecClientFrames == Init /\ [][NextClientFrames]_vars

\* MCPWebSocketClient connected to the proxy: the proxy accepts the
\* connection before the socket's open event, receives what the socket
\* transmits and answers on the same connection.
NextClientProxy ==
  \/ LoadConfig
  \/ ConnectOk
  \/ ConnectFail
  \/ ListOk
  \/ ListNoTools
  \/ ListFail
  \/ ListHang
  \/ Connect(FrontSession)
  \/ sess[FrontSession] # "new" /\ onopen
  \/ sequence < MaxMsgs /\ createMCPClient
  \/ \E sn \in ServerNames, tn \in ToolNames :
       sequence < MaxMsgs /\ callMCPTool(sn, tn)
  \/ ProxyReceives(wsSent)
  \/ \E u \in 1..MaxMsgs : CallResolve(u)
  \/ \E u \in 1..MaxMsgs, kind \in FailureKinds : CallReject(u, kind)
  \/ Deliver
  \/ SocketCloses
  \/ onclose
  \/ Close(FrontSession)

SpecClientProxy == Init /\ [][NextClientProxy]_vars

\* The event loops of the proxy and of the page run every handler that is
\* due: startup proceeds, the connection is accepted and opens, a
\* transmitted message is received, an awaited callTool settles and a frame
\* that was sent is handled. Nothing obliges either socket to close.
FairClientSpec ==
  /\ SpecClientProxy
  /\ WF_vars(LoadConfig)
  /\ WF_vars(ConnectOk \/ ConnectFail)
  /\ WF_vars(ListOk \/ ListNoTools \/ ListFail \/ ListHang)
  /\ WF_vars(Connect(FrontSession))
  /\ WF_vars(sess[FrontSession] # "new" /\ onopen)
  /\ WF_vars(ProxyReceives(wsSent))
  /\ WF_vars(\E u \in 1..MaxMsgs :
               CallResolve(u) \/ \E kind \in FailureKinds : CallReject(u, kind))
  /\ WF_vars(Deliver)

\* ------------------------------- Altair --------------------------------

\* Names of the function calls the model may issue.
FunctionNames == {"read_file", "write_file"}

\* A request Altair's socket transmits.
AltairRequest(type, requestId, serverName, toolName) ==
  [type |-> type, requestId |-> requestId, serverName |-> serverName,
   toolName |-> toolName]

\* data[field] as JavaScript reads it: undefined for a field data has not.
Get(data, field) == IF field \in DOMAIN data THEN data[field] ELSE NoId

\* The catalog entries whose name is the one asked for.
Matches(name) == { i \in 1..Len(mcpTools) : mcpTools[i].name = name }

\* A lookup that keeps the last entry with the name.
FindLast(name) ==
  IF Matches(name) = {} THEN 0
  ELSE CHOOSE i \in Matches(name) : \A j \in Matches(name) : j <= i

\* mcpTools.find(tool => tool.name === fc.name): the position of the first
\* entry with the name, 0 for undefined.
Find(name) ==
  IF Matches(name) = {} THEN 0
  ELSE CHOOSE i \in Matches(name) : \A j \in Matches(name) : i <= j

\* The function call fc is sent on: its tool is known and the socket is open.
Forwards(fc) == Find(fc.name) # 0 /\ ws = "open"

\* mcpRequest of the function call fc
McpRequest(fc) ==
  AltairRequest("call_tool", fc.id, mcpTools[Find(fc.name)].serverName,
                mcpTools[Find(fc.name)].name)

\* A response passed to client.sendToolResponse; from names the handler.
ToolResponse(id, error, from) == [id |-> id, error |-> error, from |-> from]

\* An onToolCall that, when the socket is not open, reports the failure and
\* sends the request all the same.
onToolCallSendAnyway(calls) ==
  LET known == SelectSeq(calls, LAMBDA fc : Find(fc.name) # 0)
      failed == SelectSeq(calls, LAMBDA fc : ~Forwards(fc))
  IN  /\ altairSent' = altairSent \o [i \in 1..Len(known) |-> McpRequest(known[i])]
      /\ toolResponses' = toolResponses \o
           [i \in 1..Len(failed) |-> ToolResponse(failed[i].id, TRUE, "onToolCall")]
      /\ functionCalls' = functionCalls \o
           [i \in 1..Len(calls) |->
              [id |-> calls[i].id, name |-> calls[i].name,
               found |-> Find(calls[i].name), open |-> ws = "open"]]
      /\ UNCHANGED << ws, altairRead, functionDeclarations >>
      /\ UNCHANGED << converterVars, clientVars, handlerVars >>
      /\ UNCHANGED proxyVars

\* onToolCall(toolCall): each function call is either sent to the proxy as a
\* call_tool request or answered with an error response. Each call is kept
\* with the position of the entry found (0 for none) and the socket's state.
onToolCall(calls) ==
  LET sends == SelectSeq(calls, LAMBDA fc : Forwards(fc))
      failed == SelectSeq(calls, LAMBDA fc : ~Forwards(fc))
  IN  /\ altairSent' = altairSent \o [i \in 1..Len(sends) |-> McpRequest(sends[i])]
      /\ toolResponses' = toolResponses \o
           [i \in 1..Len(failed) |-> ToolResponse(failed[i].id, TRUE, "onToolCall")]
      /\ functionCalls' = functionCalls \o
           [i \in 1..Len(calls) |->
              [id |-> calls[i].id, name |-> calls[i].name,
               found |-> Find(calls[i].name), open |-> ws = "open"]]
      /\ UNCHANGED << ws, altairRead, functionDeclarations >>
      /\ UNCHANGED << converterVars, clientVars, handlerVars >>
      /\ UNCHANGED proxyVars

\* ws.onopen of Altair: the tools are asked for with a tools_list message.
AltairOnOpen ==
  /\ ws = "connecting"
  /\ ws' = "open"
  /\ altairSent' = Append(altairSent, AltairRequest("tools_list", NoId, Absent, Absent))
  /\ UNCHANGED << altairRead, functionCalls, toolResponses, functionDeclarations >>
  /\ UNCHANGED << converterVars, clientVars, handlerVars >>
  /\ UNCHANGED proxyVars

\* ws.onmessage of Altair on the next frame of the proxy: a tools_list frame
\* replaces mcpTools (the proxy's tools field is always an array), a
\* tool_response frame is passed to the model with id: data.id, an error
\* frame is logged.
AltairOnMessage ==
  /\ ws = "open"
  /\ altairRead < Len(Frames)
  /\ Frames[altairRead + 1].delivered
  /\ altairRead' = altairRead + 1
  /\ LET data == Frames[altairRead + 1]
     IN  /\ mcpTools' = IF data.type = "tools_list" THEN data.tools ELSE mcpTools
         /\ toolResponses' =
              IF data.type = "tool_response"
                THEN Append(toolResponses,
                       ToolResponse(Get(data, "id"), FALSE, "onmessage"))
                ELSE toolResponses
  /\ UNCHANGED << ws, altairSent, functionCalls, functionDeclarations, declarations >>
  /\ UNCHANGED << clientVars, handlerVars >>
  /\ UNCHANGED proxyVars

\* The connection of Altair ends; ws.onclose only logs.
AltairOnClose ==
  /\ ws \in {"connecting", "open"}
  /\ ws' = "closed"
  /\ UNCHANGED << altairSent, altairRead, functionCalls, toolResponses,
                  functionDeclarations >>
  /\ UNCHANGED << converterVars, clientVars, handlerVars >>
  /\ UNCHANGED proxyVars

\* The ids of a sequence of function calls or requests.
IdsOf(q, field) == { q[i][field] : i \in 1..Len(q) }

\* The toolcall events of one run: one or two function calls with ids the
\* model has not used; ids are interchangeable, so r2 goes to the proxy only
\* after r1 did; and the proxy can receive every request sent to it.
ToolCalls ==
  LET FC == [id : RequestIds \ IdsOf(functionCalls, "id"), name : FunctionNames]
      sendsOf(calls) == SelectSeq(calls, LAMBDA fc : Forwards(fc))
  IN  { calls \in { <<c>> : c \in FC } \cup { <<c, d>> : c \in FC, d \in FC } :
          /\ \A i \in 1..Len(calls), j \in 1..Len(calls) :
               i # j => calls[i].id # calls[j].id
          /\ Len(altairSent) + Len(sendsOf(calls)) <= MaxMsgs
          /\ \A i \in 1..Len(sendsOf(calls)) :
               sendsOf(calls)[i].id = "r2" =>
                 \/ "r1" \in IdsOf(altairSent, "requestId")
                 \/ \E j \in 1..i-1 : sendsOf(calls)[j].id = "r1" }

\* Altair connected to the proxy.
NextAltair ==
  \/ LoadConfig
  \/ ConnectOk
  \/ ConnectFail
  \/ ListOk
  \/ ListNoTools
  \/ ListFail
  \/ ListHang
  \/ Connect(FrontSession)
  \/ sess[FrontSession] # "new" /\ AltairOnOpen
  \/ \E calls \in ToolCalls : onToolCall(calls)
  \/ ProxyReceives(altairSent)
  \/ \E u \in 1..MaxMsgs : CallResolve(u)
  \/ \E u \in 1..MaxMsgs, kind \in FailureKinds : CallReject(u, kind)
  \/ AltairOnMessage
  \/ AltairOnClose
  \/ Close(FrontSession)

SpecAltair == Init /\ [][NextAltair]_vars

\* The event loops of the proxy and of the page run every handler that is
\* due; nothing obliges either socket to close or the model to call a tool.
FairAltairSpec ==
  /\ SpecAltair
  /\ WF_vars(LoadConfig)
  /\ WF_vars(ConnectOk \/ ConnectFail)
  /\ WF_vars(ListOk \/ ListNoTools \/ ListFail \/ ListHang)
  /\ WF_vars(Connect(FrontSession))
  /\ WF_vars(sess[FrontSession] # "new" /\ AltairOnOpen)
  /\ WF_vars(ProxyReceives(altairSent))
  /\ WF_vars(\E u \in 1..MaxMsgs :
               CallResolve(u) \/ \E kind \in FailureKinds : CallReject(u, kind))
  /\ WF_vars(AltairOnMessage)

\* -------------------------------- C21 ----------------------------------

\* The entries of provider p in a snapshot.
EntriesOf(snap, p) == { i \in 1..Len(snap) : snap[i].serverName = p }

\* C21: every tools_list snapshot, when it is sent, holds for each provider
\* either no entry at all or exactly one entry for each tool of the list
\* that provider reported at discovery, also while startup is still going on.
C21_NoHalfBuiltCatalog ==
  [][ \A s \in Sessions :
        (Appends(s) /\ Appended(s).type = "tools_list") =>
          \A p \in Providers :
            LET snap == Appended(s).tools
            IN  \/ EntriesOf(snap, p) = {}
                \/ /\ Cardinality(EntriesOf(snap, p)) = Len(Reported(p))
                   /\ \A k \in 1..Len(Reported(p)) :
                        \E i \in EntriesOf(snap, p) :
                          snap[i].name = Reported(p)[k].name ]_vars

\* A snapshot sent while startup was between the two providers: it holds both
\* tools of a and none of b, which registered its tool afterwards.
C21_Witness ==
  /\ outcome["b"] = "registered" /\ reported["b"] # << >>
  /\ \E s \in Sessions : \E i \in 1..Len(sent[s]) :
       /\ sent[s][i].type = "tools_list"
       /\ Cardinality(EntriesOf(sent[s][i].tools, "a")) = 2
       /\ EntriesOf(sent[s][i].tools, "b") = {}

\* -------------------------------- C22 ----------------------------------

\* The properties of the input schema of a descriptor, none when it has no
\* schema or no properties.
InProps(tool) ==
  IF NoSchemaProperties(tool) THEN [k \in {} |-> Undefined]
  ELSE tool.inputSchema.properties.fields

\* The result description out is a string, the empty one when the
\* description it was made from is absent.
DescriptionOk(in, out) ==
  /\ out.js = "string"
  /\ Nullish(in) => out = Str(<< >>)

\* C22: in every conversion made, the description of the declaration, of
\* each converted property and of each converted nested property of array
\* items is a string, and the empty string when the descriptor had none.
C22_DescriptionAlwaysString ==
  \A n \in 1..Len(declarations) :
    LET tool == declarations[n].tool
        out == declarations[n].result
    IN  /\ DescriptionOk(tool.description, out.description)
        /\ DOMAIN out.parameters.properties = DOMAIN InProps(tool)
        /\ \A k \in DOMAIN InProps(tool) :
             LET prop == InProps(tool)[k]
                 conv == out.parameters.properties[k]
             IN  /\ DescriptionOk(prop.description, conv.description)
                 /\ (prop.type = "array" /\ HasItemProps(prop)) =>
                      \A j \in DOMAIN prop.items.properties.fields :
                        DescriptionOk(prop.items.properties.fields[j].description,
                                      conv.items.properties[j].description)

\* A conversion of a descriptor without description whose array property and
\* its nested item property have none either.
C22_Witness ==
  \E n \in 1..Len(declarations) :
    LET tool == declarations[n].tool
    IN  /\ Nullish(tool.description)
        /\ \E k \in DOMAIN InProps(tool) :
             /\ InProps(tool)[k].type = "array"
             /\ Nullish(InProps(tool)[k].description)
             /\ HasItemProps(InProps(tool)[k])
             /\ \E j \in DOMAIN InProps(tool)[k].items.properties.fields :
                  Nullish(InProps(tool)[k].items.properties.fields[j].description)

\* -------------------------------- C23 ----------------------------------

SchemaTypes == {"STRING", "NUMBER", "BOOLEAN", "OBJECT", "ARRAY"}

\* The provider gave no item type: no items, or items without a type.
ItemTypeOmitted(prop) ==
  \/ Nullish(prop.items)
  \/ prop.items.type = "undefined"

\* C23: in every conversion made, each property of type array is converted
\* to an ARRAY property that has items with a type of the schema types, and
\* that type is STRING when the provider gave no item type.
C23_ArrayItemsTyped ==
  \A n \in 1..Len(declarations) :
    LET tool == declarations[n].tool
        out == declarations[n].result
    IN  \A k \in DOMAIN InProps(tool) :
          InProps(tool)[k].type = "array" =>
            /\ k \in DOMAIN out.parameters.properties
            /\ out.parameters.properties[k].type = "ARRAY"
            /\ "items" \in DOMAIN out.parameters.properties[k]
            /\ out.parameters.properties[k].items.type \in SchemaTypes
            /\ ItemTypeOmitted(InProps(tool)[k]) =>
                 out.parameters.properties[k].items.type = "STRING"

\* Conversions were made of an array property without items and of one whose
\* items are there but have no type.
C23_Witness ==
  \E a \in 1..Len(declarations), b \in 1..Len(declarations) :
    /\ \E k \in DOMAIN InProps(declarations[a].tool) :
         /\ InProps(declarations[a].tool)[k].type = "array"
         /\ InProps(declarations[a].tool)[k].items = Undefined
    /\ \E k \in DOMAIN InProps(declarations[b].tool) :
         /\ InProps(declarations[b].tool)[k].type = "array"
         /\ ~Nullish(InProps(declarations[b].tool)[k].items)
         /\ InProps(declarations[b].tool)[k].items.type = "undefined"

\* -------------------------------- C24 ----------------------------------

\* C24: in every conversion made, the converted items of an array property
\* whose items declare nested properties have a required field, an array:
\* the provider's items.required when it gave one, the empty list otherwise.
C24_NestedRequiredAlwaysSet ==
  \A n \in 1..Len(declarations) :
    LET tool == declarations[n].tool
        out == declarations[n].result
    IN  \A k \in DOMAIN InProps(tool) :
          (InProps(tool)[k].type = "array" /\ HasItemProps(InProps(tool)[k])) =>
            LET items == InProps(tool)[k].items
                conv == out.parameters.properties[k].items
            IN  /\ "required" \in DOMAIN conv
                /\ conv.required.js = "array"
                /\ conv.required =
                     IF Nullish(items.required) THEN Arr(<< >>) ELSE items.required

\* A conversion of array items with nested properties and no required list.
C24_Witness ==
  \E n \in 1..Len(declarations) :
    \E k \in DOMAIN InProps(declarations[n].tool) :
      /\ InProps(declarations[n].tool)[k].type = "array"
      /\ HasItemProps(InProps(declarations[n].tool)[k])
      /\ DOMAIN InProps(declarations[n].tool)[k].items.properties.fields # {}
      /\ Nullish(InProps(declarations[n].tool)[k].items.required)

\* -------------------------------- C25 ----------------------------------

SessionStep ==
  \/ sess' # sess
  \/ requests' # requests
  \/ sent' # sent
  \/ invoked' # invoked

\* The step is one of initializeMCPClient on the provider the startup loop is
\* at.
StartupStep == initPhase \in {"connect", "list"} /\ outcome' # outcome

\* C26: no step of a session (a connect, a close, a message of any type, the
\* answer to a call) changes the registry, and the registry changes only in
\* a step of startup, by one entry added for the provider being initialized.
C26_RegistryWrittenByStartupOnly ==
  [][ /\ SessionStep => mcpClients' = mcpClients
      /\ mcpClients' # mcpClients =>
           /\ StartupStep
           /\ Len(mcpClients') = Len(mcpClients) + 1
           /\ SubSeq(mcpClients', 1, Len(mcpClients)) = mcpClients
           /\ mcpClients'[Len(mcpClients')].name = config[initIdx] ]_vars

\* With a provider registered, messages of two types were received, a
\* malformed one among them, a call was answered and a session closed.
C26_Witness ==
  /\ mcpClients # << >>
  /\ Len(requests) = 2
  /\ \E u \in 1..2 : requests[u].type = "malformed"
  /\ \E u \in 1..2 : IsCall(u) /\ Completed(u)
  /\ \E s \in Sessions : sess[s] = "closed"

\* -------------------------------- C27 ----------------------------------

\* The snapshots sent so far, to any session.
SnapshotsSent ==
  UNION { { sent[s][i].tools :
              i \in { j \in 1..Len(sent[s]) : sent[s][j].type = "tools_list" } } :
          s \in Sessions }

\* C27: a snapshot, when it is sent, holds every entry of every snapshot sent
\* before it, to the same session or another one.
C27_CatalogGrowsMonotonically ==
  [][ \A s \in Sessions :
        (Appends(s) /\ Appended(s).type = "tools_list") =>
          \A earlier \in SnapshotsSent :
            Range(earlier) \subseteq Range(Appended(s).tools) ]_vars

\* Three snapshots of growing size were sent, to two sessions.
C27_Witness ==
  \E s \in Sessions, t \in Sessions :
    /\ s # t
    /\ \E i \in 1..Len(sent[s]), j \in 1..Len(sent[t]), k \in 1..Len(sent[s]) :
         /\ i < k
         /\ sent[s][i].type = "tools_list" /\ sent[t][j].type = "tools_list"
         /\ sent[s][k].type = "tools_list"
         /\ Len(sent[s][i].tools) < Len(sent[t][j].tools)
         /\ Len(sent[t][j].tools) < Len(sent[s][k].tools)

\* -------------------------------- C28 ----------------------------------

\* C28: while a call of a session is outstanding, the step that receives a
\* later message of that session handles it at once and leaves the earlier
\* call outstanding: a list_tools is answered with the tools list, a
\* call_tool is handed to its backend (or refused with an error frame), and a
\* client_log, which has no answer, is taken.
C28_PendingCallDoesNotBlock ==
  [][ \A s \in Sessions :
        HasPendingCall(s) =>
          /\ Received(s, "list_tools") =>
               /\ Appends(s)
               /\ Appended(s).type = "tools_list"
               /\ Appended(s).req = Len(requests')
               /\ Appended(s).delivered
          /\ Received(s, "call_tool") =>
               \/ /\ requests'[Len(requests')].state = "pending"
                  /\ Len(invoked') = Len(invoked) + 1
                  /\ invoked'[Len(invoked')].req = Len(requests')
               \/ /\ requests'[Len(requests')].state = "not_found"
                  /\ Appends(s)
                  /\ Appended(s).type = "error"
          /\ (\E type \in {"list_tools", "call_tool", "client_log"} :
                 Received(s, type)) =>
               \A u \in 1..Len(requests) : requests'[u] = requests[u] ]_vars

\* A session whose first call is still outstanding got the answer to the
\* list_tools it sent afterwards.
C28_Witness ==
  \E s \in Sessions :
    /\ Len(requests) = 2
    /\ requests[1].session = s /\ IsCall(1) /\ requests[1].state = "pending"
    /\ requests[2].session = s /\ requests[2].type = "list_tools"
    /\ \E i \in RepliesTo(s, 2) : sent[s][i].delivered

\* -------------------------------- C29 ----------------------------------

\* C29: when the process has exited after a signal, its exit code is 0 and
\* disconnect was called on the client of every registry entry, also on
\* those that come after a client whose disconnect threw.
C29_CleanupAttemptsAllThenExits0 ==
  exitCode # -1 =>
    /\ exitCode = 0
    /\ cleanupIdx = Len(mcpClients) + 1
    /\ \A k \in 1..Len(mcpClients) : mcpClients[k].client \in attempted

\* The process exited after the disconnect of the first of two registered
\* clients threw (its child still runs) and that of the second one succeeded.
C29_Witness ==
  /\ exitCode = 0
  /\ Len(mcpClients) = 2
  /\ backend[mcpClients[1].client] = "running"
  /\ backend[mcpClients[2].client] = "exited"
  /\ attempted = {mcpClients[1].client, mcpClients[2].client}

\* -------------------------------- C30 ----------------------------------

\* The numbers of the sendOrQueue calls whose messages are in q.
SeqsOf(q) == { q[i].seq : i \in 1..Len(q) }

\* The messages of q are in the order of their sendOrQueue calls, each once.
InCallOrder(q) ==
  \A i \in 1..Len(q), j \in 1..Len(q) : i < j => q[i].seq < q[j].seq

\* C30: nothing is sent before the socket opens and every message handed to
\* sendOrQueue until then waits in the queue; the socket transmits messages
\* in the order of their sendOrQueue calls, each once, so the queued ones go
\* first and in queue order; and while the socket is open the queue is empty
\* and every message handed over so far has been transmitted.
C30_QueuedSentOnceInOrder ==
  /\ InCallOrder(wsSent)
  /\ InCallOrder(messageQueue)
  /\ \A i \in 1..Len(wsSent), j \in 1..Len(wsSent) :
       (i < j /\ wsSent[j].queued) => wsSent[i].queued
  /\ readyState = "connecting" =>
       /\ wsSent = << >>
       /\ SeqsOf(messageQueue) = 1..sequence
  /\ readyState = "open" =>
       /\ messageQueue = << >>
       /\ SeqsOf(wsSent) = 1..sequence

\* Two messages were queued before the socket opened and a third was handed
\* over after: all three were transmitted.
C30_Witness ==
  /\ readyState = "open"
  /\ Len(wsSent) = 3
  /\ wsSent[1].type = "list_tools" /\ wsSent[1].queued
  /\ wsSent[2].type = "call_tool" /\ wsSent[2].queued
  /\ ~wsSent[3].queued

\* -------------------------------- C31 ----------------------------------

\* The promise of the k-th callTool has settled and no entry of
\* messageHandlers holds its resolve any more.
Settled(k) ==
  /\ promises[k].state # "pending"
  /\ \A r \in DOMAIN messageHandlers : messageHandlers[r] # k

\* C31: every promise returned by callTool eventually settles and its entry
\* leaves messageHandlers, whether the proxy answers the request with a
\* tool_response frame or with an error frame, and when the socket closes.
C31_EveryCallSettles ==
  \A k \in 1..MaxMsgs :
    [](k <= Len(promises) => <>(k <= Len(promises) /\ Settled(k)))

\* -------------------------------- C32 ----------------------------------

\* onmessage has just handled a frame.
Handled == Len(received') = Len(received) + 1

\* The frame onmessage has just handled.
LastFrame == received'[Len(received')]

\* C32: no resolve stored by callTool is invoked twice. A tool_response
\* frame whose requestId has an entry in messageHandlers invokes the resolve
\* stored there, once, and deletes the entry, leaving every other promise and
\* entry alone; a tool_response frame whose requestId has no entry (never
\* used, or answered before) changes neither a promise nor messageHandlers.
C32_HandlerInvokedAtMostOnce ==
  [][/\ \A k \in 1..Len(promises') : promises'[k].invoked <= 1
     /\ (Handled /\ LastFrame.type = "tool_response") =>
          IF LastFrame.requestId \in DOMAIN messageHandlers
            THEN LET k == messageHandlers[LastFrame.requestId]
                 IN  /\ promises'[k].invoked = promises[k].invoked + 1
                     /\ promises'[k].state = "resolved"
                     /\ \A j \in 1..Len(promises) : j # k => promises'[j] = promises[j]
                     /\ DOMAIN messageHandlers' =
                          DOMAIN messageHandlers \ {LastFrame.requestId}
                     /\ \A r \in DOMAIN messageHandlers' :
                          messageHandlers'[r] = messageHandlers[r]
            ELSE /\ promises' = promises
                 /\ messageHandlers' = messageHandlers]_vars

\* Three tool_response frames were handled while one call was pending: the
\* first named an id never used, the second the call's id, the third the
\* same id again. The call was resolved once and another call is pending.
C32_Witness ==
  /\ Len(received) = 3
  /\ \A i \in 1..3 : received[i].type = "tool_response"
  /\ received[1].requestId = "r2"
  /\ received[2].requestId = "r1"
  /\ received[3].requestId = "r1"
  /\ Len(promises) = 1
  /\ promises[1] = [requestId |-> "r1", state |-> "resolved", invoked |-> 1]
  /\ messageHandlers = NoHandlers

\* -------------------------------- C33 ----------------------------------

\* A tools_list frame of the proxy is on its way to the socket.
ToolsListOnItsWay ==
  \E i \in Len(received) + 1 .. Len(Frames) :
    Frames[i].type = "tools_list" /\ Frames[i].delivered

\* C33: once a tools_list frame is on its way to the socket, every promise
\* that createMCPClient has returned by then is eventually resolved with a
\* tool list, however many of them were created before the frame arrived,
\* as long as the socket does not close.
C33_EveryClientResolves ==
  \A k \in 1..MaxMsgs :
    (k <= Len(created) /\ ToolsListOnItsWay)
      ~> ((k <= Len(created) /\ created[k].state = "resolved") \/ readyState \notin {"connecting", "open"})

\* -------------------------------- C34 ----------------------------------

\* Positions of the call_tool requests Altair sent with requestId id.
RequestsFor(id) ==
  { j \in 1..Len(altairSent) :
      altairSent[j].type = "call_tool" /\ altairSent[j].requestId = id }

\* Positions of the responses onToolCall itself gave the model for id.
LocalResponsesFor(id) ==
  { j \in 1..Len(toolResponses) :
      toolResponses[j].from = "onToolCall" /\ toolResponses[j].id = id }

\* C34: for every function call onToolCall has handled, either one call_tool
\* request with its id as requestId was sent to the proxy, or onToolCall gave
\* the model one error response with its id, never both and never neither;
\* the request is sent exactly when the name was in the catalog and the
\* socket was open.
C34_ForwardedOrRefused ==
  \A i \in 1..Len(functionCalls) :
    LET fc == functionCalls[i]
    IN  /\ Cardinality(RequestsFor(fc.id)) + Cardinality(LocalResponsesFor(fc.id)) = 1
        /\ Cardinality(RequestsFor(fc.id)) = 1 <=> (fc.found # 0 /\ fc.open)
        /\ \A j \in LocalResponsesFor(fc.id) : toolResponses[j].error

\* One function call was sent on, and another, whose tool was in the catalog
\* too, came when the socket was no longer open and was refused.
C34_Witness ==
  \E i \in 1..Len(functionCalls), j \in 1..Len(functionCalls) :
    /\ functionCalls[i].found # 0 /\ functionCalls[i].open
    /\ RequestsFor(functionCalls[i].id) # {}
    /\ functionCalls[j].found # 0 /\ ~functionCalls[j].open
    /\ LocalResponsesFor(functionCalls[j].id) # {}

\* -------------------------------- C35 ----------------------------------

\* Positions of the responses the model was given with id id.
ResponsesFor(id) ==
  { j \in 1..Len(toolResponses) : toolResponses[j].id = id }

\* C35: for every function call Altair sent on to the proxy, the model is
\* eventually given exactly one tool response whose id is the id of the
\* function call, whether the proxy answers the request with a tool_response
\* frame or with an error frame, as long as neither side closes the socket.
C35_ForwardedCallAnswered ==
  \A i \in 1..MaxMsgs :
    (i <= Len(functionCalls) /\ RequestsFor(functionCalls[i].id) # {})
      ~> \/ /\ i <= Len(functionCalls)
            /\ Cardinality(ResponsesFor(functionCalls[i].id)) = 1
         \/ ws # "open"
         \/ sess[FrontSession] = "closed"

\* -------------------------------- C36 ----------------------------------

\* The request types the proxy's switch has a case for.
HandledTypes == {"list_tools", "client_log", "call_tool"}

\* C36: every request Altair has sent and the proxy has received is of a
\* type the proxy's switch handles, so none of the frames the proxy sent to
\* Altair is the error frame of the default case.
C36_NoUnknownRequestType ==
  /\ \A u \in 1..Len(requests) : requests[u].type \in HandledTypes
  /\ \A i \in 1..Len(Frames) :
       (Frames[i].type = "error" /\ Frames[i].req # 0) =>
         requests[Frames[i].req].type \in HandledTypes

\* -------------------------------- C37 ----------------------------------

\* C37: every call_tool request onToolCall sends carries the name of the
\* function call and the serverName of the first entry of mcpTools, in
\* snapshot order, that has this name, whichever other providers list the
\* name further on.
C37_FirstProviderWins ==
  [][\A j \in Len(altairSent) + 1 .. Len(altairSent') :
       altairSent'[j].type = "call_tool" =>
         \E k \in 1..Len(mcpTools) :
           /\ mcpTools[k].name = altairSent'[j].toolName
           /\ \A l \in 1..k-1 : mcpTools[l].name # altairSent'[j].toolName
           /\ altairSent'[j].serverName = mcpTools[k].serverName]_vars

\* The catalog lists read_file for provider a and then for provider b, in
\* this order, and the call of read_file went to a.
C37_Witness ==
  /\ \E k \in 1..Len(mcpTools), l \in 1..Len(mcpTools) :
       /\ k < l
       /\ mcpTools[k] = [name |-> "read_file", serverName |-> "a"]
       /\ mcpTools[l] = [name |-> "read_file", serverName |-> "b"]
  /\ \E j \in 1..Len(altairSent) :
       /\ altairSent[j].type = "call_tool"
       /\ altairSent[j].toolName = "read_file"
       /\ altairSent[j].serverName = "a"

\* -------------------------------- C38 ----------------------------------

\* Positions of the input tools that have inputSchema.properties and whose
\* serverName is neither filesystem nor docker-mcp.
Eligible ==
  { i \in 1..Len(mcpTools) :
      /\ mcpTools[i].inputSchema.js = "object"
      /\ mcpTools[i].inputSchema.properties.js = "object"
      /\ mcpTools[i].serverName # "filesystem"
      /\ mcpTools[i].serverName # "docker-mcp" }

\* The j-th eligible position, in input order.
NthEligible(j) ==
  CHOOSE i \in Eligible : Cardinality({ v \in Eligible : v <= i }) = j

\* C38: what filterAndConvertTools returns has one declaration for each
\* eligible input tool and none for any other; the j-th declaration is the
\* conversion of the j-th eligible tool, in input order.
C38_OneDeclarationPerEligibleTool ==
  functionDeclarations.js = "array" =>
    /\ Len(functionDeclarations.elems) = Cardinality(Eligible)
    /\ \A j \in 1..Len(functionDeclarations.elems) :
         /\ functionDeclarations.elems[j] =
              convertToolToFunctionDeclaration(mcpTools[NthEligible(j)])
         /\ functionDeclarations.elems[j].name = mcpTools[NthEligible(j)].name

\* Of three tools the first is from a skipped server, the second has no
\* schema properties and the third, named u, is eligible with an empty
\* properties object: the one declaration returned is that of u.
C38_Witness ==
  /\ functionDeclarations.js = "array"
  /\ Len(mcpTools) = 3
  /\ mcpTools[1].serverName = "docker-mcp"
  /\ mcpTools[1].inputSchema.js = "object"
  /\ mcpTools[1].inputSchema.properties.js = "object"
  /\ mcpTools[2].serverName = "a"
  /\ mcpTools[2].inputSchema.js = "undefined"
  /\ mcpTools[3].serverName = "a"
  /\ mcpTools[3].name = "u"
  /\ Eligible = {3}
  /\ Len(functionDeclarations.elems) = 1
  /\ functionDeclarations.elems[1].name = "u"

====
